---- MODULE Spec2Model ----
(***************************************************************************)
(* Model of the trading bot's trailing-stop logic (backtest simulator,     *)
(* TrailingStopManager, legacy manage_trailing_stop), of the exchange's    *)
(* replace_stop_loss validation, and of the position-closure protocol of   *)
(* PositionManager and TrailingStopManager.                                *)
(*                                                                         *)
(* Prices are fixed-point integers: one price unit is Scale model units,   *)
(* so that every percentage the code takes (buffer, step, 0.1% clamp,      *)
(* 0.01% safety distance) is exact on the price grids used here.           *)
(***************************************************************************)
EXTENDS Integers, Sequences, FiniteSets, TLC

VARIABLES
    setup,        \* the trade and the trailing parameters of the run
    bars,         \* number of candles fed so far (the index of the latest)
    phase,        \* who processes the latest candle next
    candle,       \* the latest candle
    bt,           \* backtest simulator: the locals of backtest_zone's loop
    tsm,          \* TrailingStopManager: trailing_active, current_stop, last_step_applied
    mts,          \* manage_trailing_stop: the same three locals
    stop_order,   \* stop price of the resting exchange stop order (0: none)
    last_replace, \* the replace_stop_loss call of the manager's latest candle
    tsm_before,   \* the manager's state and the stop order before that candle
    mts_replace,  \* the replace_stop_loss call of manage_trailing_stop's latest candle
    accepted,     \* every replace_stop_loss call of the manager has succeeded
    ex,           \* exchange: the symbol's position and its protective orders
    pm,           \* SymbolTrader.run / PositionManager: position in the code and fields
    tsm_ctl,      \* TrailingStopManager.run: position in the code and fields
    obs,          \* what has been observed: notifications, cancellations, orders
    plan,         \* trade planner: the zone, the candle series and what was planned
    zn,           \* live zone bookkeeping: the zone list and which zones are excluded
    tk,           \* the trailing tasks started for the symbol's positions
    rn,           \* trade_symbols: the traders of the symbols and their loops
    fx,           \* the latest call of a calculation: its arguments and its result
    tc,           \* the executor's ticker cache, the clock and the latest get_ticker_price call
    rl            \* the RateLimiter: its deques, its lock and the calling threads

vars == <<setup, bars, phase, candle, bt, tsm, mts, stop_order, last_replace,
          tsm_before, mts_replace, accepted, ex, pm, tsm_ctl, obs, plan, zn, tk, rn, fx,
          tc, rl>>

trailVars == <<setup, bars, phase, candle, bt, tsm, mts, stop_order, last_replace,
               tsm_before, mts_replace, accepted>>

liveVars == <<ex, pm, tsm_ctl, obs>>

planVars == <<plan>>

auxVars == <<zn, tk, rn, fx, tc, rl>>

\* Fixed-point resolution: 1.0 price unit = Scale model units.
Scale == 100 * 1000

P(n) == n * Scale

Max(a, b) == IF a >= b THEN a ELSE b
Min(a, b) == IF a <= b THEN a ELSE b
Abs(a) == IF a >= 0 THEN a ELSE -a

----------------------------------------------------------------------------
(* Bounds and input sets *)

\* Number of candles fed to the trailing machines in one run.
MaxBars == 2
MaxLegacyBars == 2

\* Number of main-loop iterations / exchange events in the live protocol.
MaxOpens == 1
MaxClosures == 1

\* The mutant of MinStopDelta: changes above 0.001 price unit are taken.
MinStopDeltaFine == Scale \div 1000

\* update_stop_loss ignores stop changes of at most 0.01 price unit.
MinStopDelta == Scale \div 100

\* trailing_buffer_pct, in percent.
BufferPcts == {0, 1}
\* tickSize of the symbol's PRICE_FILTER: 0.01 and 0.001 price unit.

Directions == {"LONG", "SHORT"}
Modes == {"bar_extremes", "step"}

\* Trade set-ups: entry 100, risk 2, activation at 1R, take-profit at 2R, a
\* step of 1%, over every direction, mode and buffer.
BaseConfigs ==
    {[direction |-> d,
      entry_price |-> P(100),
      initial_stop |-> IF d = "LONG" THEN P(98) ELSE P(102),
      take_profit |-> IF d = "LONG" THEN P(104) ELSE P(96),
      trail_rr |-> 1, use_trail |-> TRUE, mode |-> m, buffer_pct |-> b,
      step_pct100 |-> 100, tick |-> Scale \div 100, grid |-> "base"] :
        d \in Directions, m \in Modes, b \in BufferPcts}

\* A set-up with the step of params.py (0.01%): entry 250, risk 2, so that
\* step-mode stops fall between price ticks of 0.01.
FineConfig ==
    [direction |-> "LONG", entry_price |-> P(250), initial_stop |-> P(248),
     take_profit |-> P(254), trail_rr |-> 1, use_trail |-> TRUE, mode |-> "step",
     buffer_pct |-> 0, step_pct100 |-> 1, tick |-> Scale \div 100, grid |-> "fine"]

\* A bar_extremes set-up on the same levels, for candles whose lows lie one
\* price tick (0.01) apart.
FineBarConfig ==
    [direction |-> "LONG", entry_price |-> P(250), initial_stop |-> P(248),
     take_profit |-> P(254), trail_rr |-> 1, use_trail |-> TRUE,
     mode |-> "bar_extremes", buffer_pct |-> 0, step_pct100 |-> 1,
     tick |-> Scale \div 100, grid |-> "finebar"]

Configs == BaseConfigs \cup {FineConfig, FineBarConfig}

\* Price grids of the candles: the levels of the set-up and one level between
\* activation and take-profit.
GridOf(c) ==
    IF c.grid = "fine" THEN {P(251), P(252), P(252) + 98 * (Scale \div 100)}
    ELSE IF c.grid = "finebar" THEN {P(252), P(252) + (Scale \div 100), P(253)}
    ELSE IF c.direction = "LONG" THEN {P(98), P(100), P(102), P(103), P(104)}
    ELSE {P(102), P(100), P(98), P(97), P(96)}

\* A candle: low <= close <= high.
CandlesOn(grid) ==
    {k \in [high : grid, low : grid, close : grid] :
        k.low <= k.close /\ k.close <= k.high}

CandlesOf(c) == CandlesOn(GridOf(c))

\* The candles fed to manage_trailing_stop: the grid and one level within 0.1%
\* of the initial stop, on the trade's side of it (98.05 and 101.95).
LegacyCandlesOf(c) ==
    CandlesOn(GridOf(c) \cup
              (IF c.grid # "base" THEN {}
               ELSE IF c.direction = "LONG" THEN {P(98) + 5 * (Scale \div 100)}
               ELSE {P(102) - 5 * (Scale \div 100)}))

NoCandle == [high |-> 0, low |-> 0, close |-> 0]

----------------------------------------------------------------------------
(* Shared arithmetic of the three trailing implementations *)

\* risk = abs(entry_price - initial_stop)
Risk(cfg) == Abs(cfg.entry_price - cfg.initial_stop)

\* trail_threshold = entry_price +/- trail_activate_rr * risk
TrailThreshold(cfg) ==
    IF cfg.direction = "LONG"
    THEN cfg.entry_price + cfg.trail_rr * Risk(cfg)
    ELSE cfg.entry_price - cfg.trail_rr * Risk(cfg)

\* LONG: high >= threshold, SHORT: low <= threshold
ThresholdReached(cfg, c) ==
    \/ cfg.direction = "LONG" /\ c.high >= TrailThreshold(cfg)
    \/ cfg.direction = "SHORT" /\ c.low <= TrailThreshold(cfg)

\* step_amount = entry_price * (trail_step_pct / 100.0); trail_step_pct is
\* held in hundredths of a percent (step_pct100 = 1 is the 0.01 of params.py).
StepAmount(cfg) == (cfg.entry_price * cfg.step_pct100) \div (100 * 100)

\* progress = (high - entry) / step_amount (LONG), (entry - low) / step_amount
\* (SHORT); steps = int(progress) if progress > 0 else 0
Steps(cfg, c) ==
    LET dist == IF cfg.direction = "LONG"
                THEN c.high - cfg.entry_price
                ELSE cfg.entry_price - c.low
    IN IF dist > 0 THEN dist \div StepAmount(cfg) ELSE 0

\* x * pct / 100.0
Pct(x, pct) == (x * pct) \div 100

\* bar_extremes proposal: low - buffer (LONG), high + buffer (SHORT)
BarExtremeProposed(cfg, c) ==
    IF cfg.direction = "LONG"
    THEN c.low - Pct(c.low, cfg.buffer_pct)
    ELSE c.high + Pct(c.high, cfg.buffer_pct)

\* LONG stops only move up, SHORT stops only move down.
Ratchet(cfg, current, proposed) ==
    IF cfg.direction = "LONG" THEN Max(current, proposed) ELSE Min(current, proposed)

----------------------------------------------------------------------------
(* Backtest simulator: one bar of BacktestEngine.backtest_zone *)

BtInit(cfg) ==
    [trailing_active |-> FALSE, current_stop |-> cfg.initial_stop,
     last_step_applied |-> 0, result |-> "NONE", exit_price |-> 0,
     exit_reason |-> "NONE", exit_time |-> 0]

\* The mutant of BtActivate: the flag follows the bar instead of latching.
BtActivateNoLatch(cfg, s, c) == cfg.use_trail /\ ThresholdReached(cfg, c)

\* Activate trailing once RR threshold reached.
BtActivate(cfg, s, c) ==
    s.trailing_active \/ (cfg.use_trail /\ ThresholdReached(cfg, c))

\* Step-mode target of the simulator: entry_price +/- steps * step_amount,
\* less (LONG) or plus (SHORT) the buffer.
BtStepProposed(cfg, steps) ==
    LET target_stop == IF cfg.direction = "LONG"
                       THEN cfg.entry_price + steps * StepAmount(cfg)
                       ELSE cfg.entry_price - steps * StepAmount(cfg)
        buffer == Pct(Abs(target_stop), cfg.buffer_pct)
    IN IF cfg.direction = "LONG" THEN target_stop - buffer ELSE target_stop + buffer

\* Update trailing stop if active: the new (current_stop, last_step_applied).
BtTrail(cfg, s, active, c) ==
    IF ~active THEN [current_stop |-> s.current_stop,
                     last_step_applied |-> s.last_step_applied]
    ELSE IF cfg.mode = "bar_extremes"
    THEN [current_stop |-> Ratchet(cfg, s.current_stop, BarExtremeProposed(cfg, c)),
          last_step_applied |-> s.last_step_applied]
    ELSE IF cfg.mode = "step" /\ cfg.step_pct100 > 0 /\ Steps(cfg, c) > s.last_step_applied
    THEN [current_stop |-> Ratchet(cfg, s.current_stop, BtStepProposed(cfg, Steps(cfg, c))),
          last_step_applied |-> Steps(cfg, c)]
    ELSE [current_stop |-> s.current_stop, last_step_applied |-> s.last_step_applied]

\* The mutant of BtExit: the stop is evaluated before the take-profit.
BtExitStopFirst(cfg, stop, c) ==
    LET tp == cfg.take_profit
        hitTP == IF cfg.direction = "LONG" THEN c.high >= tp ELSE c.low <= tp
        hitSL == IF cfg.direction = "LONG" THEN c.low <= stop ELSE c.high >= stop
        reason == IF cfg.use_trail /\ stop # cfg.initial_stop THEN "TRAIL" ELSE "SL"
    IN IF hitSL THEN [result |-> "LOSS", exit_price |-> stop, exit_reason |-> reason]
       ELSE IF hitTP THEN [result |-> "WIN", exit_price |-> tp, exit_reason |-> "TP"]
       ELSE [result |-> "NONE", exit_price |-> 0, exit_reason |-> "NONE"]

\* Evaluate exits: take-profit first, then the current stop.
BtExit(cfg, stop, c) ==
    LET tp == cfg.take_profit
        hitTP == IF cfg.direction = "LONG" THEN c.high >= tp ELSE c.low <= tp
        hitSL == IF cfg.direction = "LONG" THEN c.low <= stop ELSE c.high >= stop
        reason == IF cfg.use_trail /\ stop # cfg.initial_stop THEN "TRAIL" ELSE "SL"
    IN IF hitTP THEN [result |-> "WIN", exit_price |-> tp, exit_reason |-> "TP"]
       ELSE IF hitSL THEN [result |-> "LOSS", exit_price |-> stop, exit_reason |-> reason]
       ELSE [result |-> "NONE", exit_price |-> 0, exit_reason |-> "NONE"]

\* One iteration of the loop over the bars after entry; the loop has ended
\* (break) once a result is set.
\* idx is the bar's index (its time).
BtBar(cfg, s, c, idx) ==
    IF s.result # "NONE" THEN s
    ELSE LET active == BtActivate(cfg, s, c)
             t == BtTrail(cfg, s, active, c)
             e == BtExit(cfg, t.current_stop, c)
         IN [trailing_active |-> active, current_stop |-> t.current_stop,
             last_step_applied |-> t.last_step_applied, result |-> e.result,
             exit_price |-> e.exit_price, exit_reason |-> e.exit_reason,
             exit_time |-> IF e.result = "NONE" THEN 0 ELSE idx]

----------------------------------------------------------------------------
(* Exchange gateway: BinanceFuturesExecutor.replace_stop_loss *)

\* The mutant of RoundPrice: the next multiple of the tick at or above.
RoundPriceUp(tick, price) == ((price + tick - 1) \div tick) * tick

\* _round_step: (value // step) * step, rounding down.
RoundPrice(tick, price) == IF tick = 0 THEN price ELSE (price \div tick) * tick

\* min_distance = max(tick_size * 2, current_price * 0.0001)
MinDistance(tick, price) == Max(tick * 2, price \div 10000)

\* The mutant of TooClose: the validation is skipped.
TooCloseNever(dir, tick, new_stop, price) == FALSE

\* The ValueError of replace_stop_loss: the rounded stop is within
\* min_distance of current_price (side SELL = LONG position).
TooClose(dir, tick, new_stop, price) ==
    IF dir = "LONG"
    THEN RoundPrice(tick, new_stop) >= price - MinDistance(tick, price)
    ELSE RoundPrice(tick, new_stop) <= price + MinDistance(tick, price)

\* What a call can end as when the validation passes: done; timed out at the
\* caller while the worker thread completed it or never got through; an
\* exchange error before anything changed, or after the old stop order was
\* cancelled and before the new one was placed.
ReplaceOutcomes == {"ok", "timeout_applied", "timeout_lost", "error", "error_cancelled"}

NoReplace ==
    [outcome |-> "none", new_stop |-> 0, price |-> 0, cancelled |-> FALSE,
     placed |-> FALSE]

\* replace_stop_loss(symbol, side, qty, new_stop, current_price): the record of
\* the call, given how it ends when the validation passes.
ReplaceStopLoss(dir, tick, new_stop, price, outcome) ==
    IF TooClose(dir, tick, new_stop, price)
    THEN [outcome |-> "too_close", new_stop |-> new_stop, price |-> price,
          cancelled |-> FALSE, placed |-> FALSE]
    ELSE [outcome |-> outcome, new_stop |-> new_stop, price |-> price,
          cancelled |-> outcome \in {"ok", "timeout_applied", "error_cancelled"},
          placed |-> outcome \in {"ok", "timeout_applied"}]

\* The resting stop order after the call (0: none).
StopOrderAfter(tick, order, r) ==
    IF r.placed THEN RoundPrice(tick, r.new_stop)
    ELSE IF r.cancelled THEN 0
    ELSE order

----------------------------------------------------------------------------
(* Live trailing state: TrailingStopManager and manage_trailing_stop *)

TrailInit(cfg) ==
    [trailing_active |-> FALSE, current_stop |-> cfg.initial_stop,
     last_step_applied |-> 0]

\* check_activation / the activation block of manage_trailing_stop: sets the
\* flag and initialises the step counter from the activating candle.
CheckActivation(cfg, s, c) ==
    IF ~s.trailing_active /\ ThresholdReached(cfg, c)
    THEN [s EXCEPT !.trailing_active = TRUE,
                   !.last_step_applied =
                       IF cfg.mode = "step" /\ cfg.step_pct100 > 0
                       THEN Steps(cfg, c) ELSE @]
    ELSE s

\* Step-mode proposal of the live code: initial_stop +/- steps * step_amount,
\* less (LONG) or plus (SHORT) the buffer.
LiveStepProposed(cfg, steps) ==
    LET target_stop == IF cfg.direction = "LONG"
                       THEN cfg.initial_stop + steps * StepAmount(cfg)
                       ELSE cfg.initial_stop - steps * StepAmount(cfg)
        buffer == Pct(Abs(target_stop), cfg.buffer_pct)
    IN IF cfg.direction = "LONG" THEN target_stop - buffer ELSE target_stop + buffer

\* calculate_new_stop with _calculate_bar_extreme_stop and _calculate_step_stop:
\* the proposed stop and the step counter, which _calculate_step_stop advances
\* as it computes.
CalculateNewStop(cfg, s, c) ==
    IF ~s.trailing_active
    THEN [new_stop |-> s.current_stop, last_step_applied |-> s.last_step_applied]
    ELSE IF cfg.mode = "bar_extremes"
    THEN [new_stop |-> Ratchet(cfg, s.current_stop, BarExtremeProposed(cfg, c)),
          last_step_applied |-> s.last_step_applied]
    ELSE IF cfg.mode = "step" /\ cfg.step_pct100 > 0 /\ Steps(cfg, c) > s.last_step_applied
    THEN [new_stop |-> Ratchet(cfg, s.current_stop, LiveStepProposed(cfg, Steps(cfg, c))),
          last_step_applied |-> Steps(cfg, c)]
    ELSE [new_stop |-> s.current_stop, last_step_applied |-> s.last_step_applied]

\* TrailingStopManager.run, the part of one iteration after the position
\* check: check_activation, calculate_new_stop, and update_stop_loss when
\* trailing is active. The result is the new state and the record of the
\* replace_stop_loss call (NoReplace when none was made).
TsmOnCandle(cfg, s, c, outcome) ==
    LET a == CheckActivation(cfg, s, c)
        n == CalculateNewStop(cfg, a, c)
        b == [a EXCEPT !.last_step_applied = n.last_step_applied]
        call == a.trailing_active /\ Abs(n.new_stop - a.current_stop) > MinStopDelta
        r == IF call
             THEN ReplaceStopLoss(cfg.direction, cfg.tick, n.new_stop, c.close, outcome)
             ELSE NoReplace
    IN [state |-> IF r.outcome = "ok" THEN [b EXCEPT !.current_stop = n.new_stop] ELSE b,
        replace |-> r]

\* The safety clamp of manage_trailing_stop's step mode: a stop at or beyond
\* the candle's close is set 0.1% inside it (close * 0.999, close * 1.001).
Clamp(cfg, new_stop, c) ==
    IF cfg.direction = "LONG"
    THEN IF new_stop >= c.close THEN c.close - c.close \div 1000 ELSE new_stop
    ELSE IF new_stop <= c.close THEN c.close + c.close \div 1000 ELSE new_stop

\* manage_trailing_stop's stop computation: as CalculateNewStop, with the
\* clamp applied to the step-mode stop.
LegacyNewStop(cfg, s, c) ==
    IF ~s.trailing_active
    THEN [new_stop |-> s.current_stop, last_step_applied |-> s.last_step_applied]
    ELSE IF cfg.mode = "bar_extremes"
    THEN [new_stop |-> Ratchet(cfg, s.current_stop, BarExtremeProposed(cfg, c)),
          last_step_applied |-> s.last_step_applied]
    ELSE IF cfg.mode = "step" /\ cfg.step_pct100 > 0 /\ Steps(cfg, c) > s.last_step_applied
    THEN [new_stop |->
              Clamp(cfg, Ratchet(cfg, s.current_stop,
                                 LiveStepProposed(cfg, Steps(cfg, c))), c),
          last_step_applied |-> Steps(cfg, c)]
    ELSE [new_stop |-> s.current_stop, last_step_applied |-> s.last_step_applied]

\* manage_trailing_stop, the part of one iteration after the position check:
\* a change above 0.01 is taken and replace_stop_loss called; the old stop is
\* restored when the call times out or raises.
LegacyOnCandle(cfg, s, c, outcome) ==
    LET a == CheckActivation(cfg, s, c)
        n == LegacyNewStop(cfg, a, c)
        b == [a EXCEPT !.last_step_applied = n.last_step_applied]
        call == Abs(n.new_stop - a.current_stop) > MinStopDelta
        r == IF call
             THEN ReplaceStopLoss(cfg.direction, cfg.tick, n.new_stop, c.close, outcome)
             ELSE NoReplace
    IN [state |-> IF r.outcome = "ok" THEN [b EXCEPT !.current_stop = n.new_stop] ELSE b,
        replace |-> r]

----------------------------------------------------------------------------
(* Trade planner: BacktestEngine._calc_levels and backtest_zone over a     *)
(* candle series, and the live BreakoutDetector                            *)

\* The planner's series holds the zone's final candle at index ZoneEnd and the
\* candles after the zone behind it; at most MaxSeries candles in all.
MaxSeries == 3

\* The zone [100, 102]; its end is the time of its last member candle.
PlanZone == [low |-> P(100), high |-> P(102), end |-> 1]

\* Price levels of the planner's candles: inside the zone, beyond each
\* boundary, and at the 4R targets of the entries 103 and 99.
PlanLevels == {P(87), P(99), P(101), P(103), P(115)}

PlanCandles == CandlesOn(PlanLevels)

\* group_zones takes the zone's bounds as the extremes of its member candles,
\* so the final candle of the zone lies within them.
ZoneCandles(zone) ==
    {k \in PlanCandles : k.low >= zone.low /\ k.high <= zone.high}

\* The candles before the zone start that the take-profit search looks at:
\* none, or one whose high and low lie at the outermost levels.
PriorData == {<<>>, <<[high |-> P(115), low |-> P(87), close |-> P(101)]>>}

SlMethods == {"low", "mid"}

\* rr_ratio of params.py.
RrRatio == 4

\* The mutant of PlannerBreakout: a wick beyond the boundary is enough.
PlannerBreakoutWick(zone, c) ==
    IF c.high > zone.high THEN "LONG"
    ELSE IF c.low < zone.low THEN "SHORT"
    ELSE "NONE"

\* The mutant of PlannerBreakout: a candle at the boundary breaks out.
PlannerBreakoutInclusive(zone, c) ==
    IF c.high >= zone.high /\ c.close >= zone.high THEN "LONG"
    ELSE IF c.low <= zone.low /\ c.close <= zone.low THEN "SHORT"
    ELSE "NONE"

\* The confirmed-breakout test of _calc_levels on one candle.
PlannerBreakout(zone, c) ==
    IF c.high > zone.high /\ c.close > zone.high THEN "LONG"
    ELSE IF c.low < zone.low /\ c.close < zone.low THEN "SHORT"
    ELSE "NONE"

\* for _, row in after.iterrows(): the index of the first breakout candle from
\* index i on (0: none before the series ends).
RECURSIVE BreakoutScan(_, _, _)
BreakoutScan(zone, series, i) ==
    IF i > Len(series) THEN 0
    ELSE IF PlannerBreakout(zone, series[i]) # "NONE" THEN i
    ELSE BreakoutScan(zone, series, i + 1)

\* The breakout candle: the zone's final candle if it breaks out, else the
\* first breakout among the candles strictly after the zone end.
BreakoutIndex(zone, series) ==
    IF zone.end <= Len(series) /\ PlannerBreakout(zone, series[zone.end]) # "NONE"
    THEN zone.end
    ELSE BreakoutScan(zone, series, zone.end + 1)

\* Stop-loss method: the zone boundary behind the entry, or the zone middle.
PlanStopLoss(zone, direction, sl_method) ==
    IF sl_method = "low"
    THEN IF direction = "LONG" THEN zone.low ELSE zone.high
    ELSE (zone.high + zone.low) \div 2

\* The take-profit: the nearest prior extreme at or beyond the raw target
\* entry +/- rr_ratio * risk, or the raw target.
PlanTakeProfit(direction, entry_price, stop_loss, before) ==
    LET risk == Abs(entry_price - stop_loss)
        threshold_tp == IF direction = "LONG" THEN entry_price + RrRatio * risk
                        ELSE entry_price - RrRatio * risk
        candidate_highs == {h \in {before[i].high : i \in DOMAIN before} :
                                h >= threshold_tp}
        candidate_lows == {l \in {before[i].low : i \in DOMAIN before} :
                               l <= threshold_tp}
    IN IF direction = "LONG"
       THEN IF candidate_highs # {}
            THEN CHOOSE h \in candidate_highs : \A g \in candidate_highs : h <= g
            ELSE threshold_tp
       ELSE IF candidate_lows # {}
            THEN CHOOSE l \in candidate_lows : \A g \in candidate_lows : l >= g
            ELSE threshold_tp

NoTrade ==
    [direction |-> "NONE", entry_price |-> 0, entry_time |-> 0, stop_loss |-> 0,
     take_profit |-> 0, breakout_candle_time |-> 0, result |-> "NONE",
     exit_time |-> 0, exit_price |-> 0, exit_reason |-> "NONE",
     trailing_active |-> FALSE]

\* _calc_levels: None, or the trade entered at the close of the breakout candle.
CalcLevels(zone, series, before, sl_method) ==
    LET i == BreakoutIndex(zone, series)
    IN IF i = 0 THEN NoTrade
       ELSE LET direction == PlannerBreakout(zone, series[i])
                entry_price == series[i].close
                stop_loss == PlanStopLoss(zone, direction, sl_method)
            IN [NoTrade EXCEPT
                   !.direction = direction,
                   !.entry_price = entry_price,
                   !.entry_time = i,
                   !.stop_loss = stop_loss,
                   !.take_profit = PlanTakeProfit(direction, entry_price,
                                                  stop_loss, before),
                   !.breakout_candle_time = i]

\* The trailing settings backtest_zone reads from params.py, with the levels
\* of the planned trade.
TradeSetup(trade) ==
    [direction |-> trade.direction, entry_price |-> trade.entry_price,
     initial_stop |-> trade.stop_loss, take_profit |-> trade.take_profit,
     trail_rr |-> 1, use_trail |-> TRUE, mode |-> "step", buffer_pct |-> 0,
     step_pct100 |-> 1, tick |-> Scale \div 100, grid |-> "plan"]

\* The mutant of FirstExitBar: the exit scan starts at the entry candle.
FirstExitBarAtEntry(entry_idx) == entry_idx

\* future = df.iloc[entry_idx + 1:]: the first candle examined for an exit.
FirstExitBar(entry_idx) == entry_idx + 1

\* for idx, row in future.iterrows(): the loop's locals after the bars from
\* index i on.
RECURSIVE BtLoop(_, _, _, _)
BtLoop(cfg, s, series, i) ==
    IF i > Len(series) \/ s.result # "NONE" THEN s
    ELSE BtLoop(cfg, BtBar(cfg, s, series[i], i), series, i + 1)

\* backtest_zone: None when nothing is planned or the breakout candle is the
\* last of the series; else the trade with its result, an undecided trade
\* being OPEN at the close of the last candle.
BacktestZone(zone, series, before, sl_method) ==
    LET trade == CalcLevels(zone, series, before, sl_method)
    IN IF trade.direction = "NONE" THEN NoTrade
       ELSE IF trade.entry_time + 1 > Len(series) THEN NoTrade
       ELSE LET cfg == TradeSetup(trade)
                s == BtLoop(cfg, BtInit(cfg), series, FirstExitBar(trade.entry_time))
            IN IF s.result = "NONE"
               THEN [trade EXCEPT !.result = "OPEN",
                                  !.exit_time = Len(series),
                                  !.exit_price = series[Len(series)].close,
                                  !.trailing_active = s.trailing_active]
               ELSE [trade EXCEPT !.result = s.result,
                                  !.exit_time = s.exit_time,
                                  !.exit_price = s.exit_price,
                                  !.exit_reason = s.exit_reason,
                                  !.trailing_active = s.trailing_active]

\* BreakoutDetector.detect_breakout on a closed candle that closed after the
\* zone end (the test of trade_symbol in main_live.py is the same).
DetectBreakout(zone, c) ==
    IF zone.low <= c.low /\ c.low <= zone.high /\ c.close > zone.high THEN "LONG"
    ELSE IF zone.low <= c.high /\ c.high <= zone.high /\ c.close < zone.low THEN "SHORT"
    ELSE "NONE"

\* The planner before any run.
PlanIdle ==
    [zone |-> PlanZone, before |-> <<>>, sl_method |-> "low", series |-> <<>>,
     simulated |-> FALSE, levels |-> NoTrade, trade |-> NoTrade,
     detected |-> "unchecked"]

\* The zone bookkeeping and the trailing tasks before any run.
ZonesIdle ==
    [path |-> "none", first |-> 1, last |-> 1, current_zone_id |-> 0,
     traded_zones |-> {}, position |-> FALSE, used |-> {}, reopened |-> FALSE]

\* running: SymbolTrader._running; cleaned: cleanup has completed;
\* late_replace: replace_stop_loss was called after that.
TasksIdle ==
    [position |-> 0, opened |-> 0, task |-> <<>>, stale_replace |-> FALSE,
     running |-> TRUE, cleaned |-> FALSE, late_replace |-> FALSE]

\* trade_symbols before it is called.
RunIdle == [stage |-> "idle"]

\* No calculation made.
FxIdle == [op |-> "none"]

\* No executor and no rate limiter constructed.
TickerIdle == [now |-> 0]
LimiterIdle == [lock |-> 0]

----------------------------------------------------------------------------
(* The trailing machines fed one candle sequence *)

\* PositionManager and SymbolTrader.run after construction, or with a
\* position stored by open_position.
PmInit(open) ==
    [pc |-> "loop", attempt |-> 0, last_has_position |-> FALSE,
     current_position |-> open, notification_sent |-> FALSE, zero_run |-> 0]

\* No TrailingStopManager task yet, or the task as _start_trailing_stop
\* creates it.
TsmCtlInit(started) ==
    [pc |-> IF started THEN "poll" ELSE "idle", attempt |-> 0,
     notification_sent |-> FALSE, confirmed |-> FALSE, zero_run |-> 0]

\* Nothing observed yet; was_flat: the exchange has held no position at some
\* time of the run; reason, pnl_positive, trailing_at_close: the reason of the
\* latest close notification, whether its P&L was above zero, and whether
\* trailing had activated for the position when it was sent.
ObsInit(open) ==
    [notify_closed |-> 0, cancel_calls |-> 0, opens |-> 0, closures |-> 0,
     open_over_position |-> FALSE, read_failed |-> FALSE, was_flat |-> ~open,
     reason |-> "none", pnl_positive |-> FALSE, trailing_at_close |-> FALSE]

\* The reason PositionManager reports: by_trailing=False, and
\* "Take Profit" if pnl > 0 else "Stop Loss".
PmReason(by_trailing, pnl_positive) ==
    IF pnl_positive THEN "Take Profit" ELSE "Stop Loss"

\* The reason TrailingStopManager reports:
\* "Trailing Stop" if by_trailing else ("Take Profit" if pnl > 0 else "Stop Loss").
TsmReason(by_trailing, pnl_positive) ==
    IF by_trailing THEN "Trailing Stop"
    ELSE IF pnl_positive THEN "Take Profit" ELSE "Stop Loss"

\* notify_position_closed is called with the reason.
Notified(o, reason, by_trailing, pnl_positive) ==
    [o EXCEPT !.notify_closed = IF @ + 1 <= 2 THEN @ + 1 ELSE 2,
              !.reason = reason, !.pnl_positive = pnl_positive,
              !.trailing_at_close = by_trailing]

TrailInitState(c) ==
    /\ setup = c
    /\ bars = 0
    /\ phase = "feed"
    /\ candle = NoCandle
    /\ bt = BtInit(c)
    /\ tsm = TrailInit(c)
    /\ mts = TrailInit(c)
    /\ stop_order = RoundPrice(c.tick, c.initial_stop)
    /\ last_replace = NoReplace
    /\ tsm_before = [state |-> TrailInit(c), stop_order |-> RoundPrice(c.tick, c.initial_stop)]
    /\ mts_replace = NoReplace
    /\ accepted = TRUE

InitTrail ==
    /\ \E c \in Configs : TrailInitState(c)
    /\ ex = [position |-> TRUE, protective |-> TRUE]
    /\ pm = PmInit(TRUE)
    /\ tsm_ctl = TsmCtlInit(TRUE)
    /\ obs = ObsInit(TRUE)
    /\ plan = PlanIdle
    /\ zn = ZonesIdle
    /\ tk = TasksIdle
    /\ rn = RunIdle
    /\ fx = FxIdle
    /\ tc = TickerIdle
    /\ rl = LimiterIdle

\* The next candle closes.
FeedCandle ==
    /\ phase = "feed"
    /\ bars < MaxBars
    /\ \E c \in CandlesOf(setup) : candle' = c
    /\ bars' = bars + 1
    /\ phase' = "bt"
    /\ UNCHANGED <<setup, bt, tsm, mts, stop_order, last_replace, tsm_before,
                   mts_replace, accepted>>
    /\ UNCHANGED <<liveVars, planVars, auxVars>>

\* backtest_zone's loop takes the bar.
BacktestBar ==
    /\ phase = "bt"
    /\ bt' = BtBar(setup, bt, candle, bars)
    /\ phase' = "tsm"
    /\ UNCHANGED <<setup, bars, candle, tsm, mts, stop_order, last_replace,
                   tsm_before, mts_replace, accepted>>
    /\ UNCHANGED <<liveVars, planVars, auxVars>>

\* The effect of one candle on the manager and on the exchange's stop order.
TsmCandleEffect(c, outcome) ==
    LET r == TsmOnCandle(setup, tsm, c, outcome)
    IN /\ tsm' = r.state
       /\ last_replace' = r.replace
       /\ tsm_before' = [state |-> tsm, stop_order |-> stop_order]
       /\ stop_order' = StopOrderAfter(setup.tick, stop_order, r.replace)
       /\ accepted' = (accepted /\ r.replace.outcome \in {"none", "ok"})

\* TrailingStopManager.run takes the candle.
TsmTick ==
    /\ phase = "tsm"
    /\ \E outcome \in ReplaceOutcomes : TsmCandleEffect(candle, outcome)
    /\ phase' = "feed"
    /\ UNCHANGED <<setup, bars, candle, bt, mts, mts_replace>>
    /\ UNCHANGED <<liveVars, planVars, auxVars>>

NextTrail == FeedCandle \/ BacktestBar \/ TsmTick

SpecTrail == InitTrail /\ [][NextTrail]_vars

----------------------------------------------------------------------------
(* manage_trailing_stop fed a candle sequence *)

\* One iteration of manage_trailing_stop's loop with the position open: the
\* latest candle is fetched and taken.
LegacyTick ==
    /\ bars < MaxLegacyBars
    /\ \E c \in LegacyCandlesOf(setup), outcome \in ReplaceOutcomes :
          LET r == LegacyOnCandle(setup, mts, c, outcome)
          IN /\ candle' = c
             /\ mts' = r.state
             /\ mts_replace' = r.replace
    /\ bars' = bars + 1
    /\ UNCHANGED <<setup, phase, bt, tsm, stop_order, last_replace, tsm_before,
                   accepted>>
    /\ UNCHANGED <<liveVars, planVars, auxVars>>

NextLegacy == LegacyTick

SpecLegacy == InitTrail /\ [][NextLegacy]_vars

----------------------------------------------------------------------------
(* Properties of the trailing machines *)

\* The latest candle has been taken by the simulator while the trade was open.
BarSimulated ==
    /\ phase \in {"tsm", "feed"}
    /\ bars >= 1
    /\ (bt.result = "NONE" \/ bt.exit_time = bars)

\* The latest candle reaches the take-profit, and reaches the simulator's stop
\* as it stands after the bar's trailing update.
TpAndStopHit ==
    IF setup.direction = "LONG"
    THEN candle.high >= setup.take_profit /\ candle.low <= bt.current_stop
    ELSE candle.low <= setup.take_profit /\ candle.high >= bt.current_stop

\* C10: a simulated bar on which both the take-profit condition and the
\* current-stop condition hold ends the trade as a WIN with reason TP at the
\* take-profit price, never as a LOSS, for LONG and SHORT, also when trailing
\* raised the stop on that bar.
C10_TakeProfitFirst ==
    (BarSimulated /\ TpAndStopHit) =>
        /\ bt.result = "WIN"
        /\ bt.exit_reason = "TP"
        /\ bt.exit_price = setup.take_profit
        /\ bt.exit_time = bars

\* C10 witness: the first bar activates trailing, moves the stop off the
\* initial stop, reaches both levels, and the trade is closed as a WIN.
C10_Witness ==
    /\ BarSimulated /\ TpAndStopHit
    /\ bars = 1
    /\ bt.trailing_active
    /\ bt.current_stop # setup.initial_stop
    /\ bt.result = "WIN"

\* The latest candle reached neither the stop order resting before it nor the
\* take-profit: the exchange position is still open.
PositionSurvived ==
    IF setup.direction = "LONG"
    THEN candle.low > tsm_before.stop_order /\ candle.high < setup.take_profit
    ELSE candle.high < tsm_before.stop_order /\ candle.low > setup.take_profit

\* C2: when every replacement was accepted, the manager holds after each bar
\* the activation flag and the stop of the simulator, in both modes, the
\* activation bar included.
C2_LiveEqualsBacktest ==
    (BarSimulated /\ phase = "feed" /\ accepted /\ PositionSurvived) =>
        /\ tsm.trailing_active = bt.trailing_active
        /\ tsm.current_stop = bt.current_stop

\* The safety distance of a stop from the price: the larger of two ticks and
\* 0.01% of the price.
WithinSafetyDistance(stop, price) ==
    LET a == 2 * setup.tick
        b == price \div 10000
        d == IF a >= b THEN a ELSE b
    IN IF setup.direction = "LONG" THEN stop >= price - d ELSE stop <= price + d

\* The latest candle made the manager call replace_stop_loss.
ReplaceCalled == phase = "feed" /\ bars >= 1 /\ last_replace.outcome # "none"

\* Nothing was cancelled or placed by the call, and the manager's stop is the
\* one it had before the candle.
ReplaceHadNoEffect ==
    /\ ~last_replace.cancelled
    /\ ~last_replace.placed
    /\ stop_order = tsm_before.stop_order
    /\ tsm.current_stop = tsm_before.state.current_stop

\* C8 as stated: a call whose requested stop lies within the safety distance
\* of the price fails before any order is cancelled or placed, and the manager
\* keeps its previous stop.
C8_RequestedStopWithinDistance ==
    (ReplaceCalled /\ WithinSafetyDistance(last_replace.new_stop, last_replace.price))
        => ReplaceHadNoEffect

\* C8 amended: a call whose stop, rounded down to the price tick as it would
\* be sent, lies within the safety distance of the price fails before any
\* order is cancelled or placed, and the manager keeps its previous stop and
\* takes the next candle.
C8_RoundedStopWithinDistance ==
    (ReplaceCalled /\ WithinSafetyDistance(
                          (last_replace.new_stop \div setup.tick) * setup.tick,
                          last_replace.price))
        => ReplaceHadNoEffect /\ last_replace.outcome = "too_close"

\* C8 witness: a call was refused while trailing was active and a stop order
\* was resting, and the order is still there.
C8_Witness ==
    /\ ReplaceCalled
    /\ last_replace.outcome = "too_close"
    /\ tsm.trailing_active
    /\ stop_order # 0
    /\ ReplaceHadNoEffect

\* C9: a replacement that fails validation or times out leaves the whole
\* trailing state as it was before the candle, the step counter included.
C9_FailedReplaceKeepsState ==
    (/\ ReplaceCalled
     /\ PositionSurvived
     /\ tsm_before.state.trailing_active
     /\ last_replace.outcome \in {"too_close", "timeout_applied", "timeout_lost"})
        => tsm = tsm_before.state

\* C1: the stop of an open trade never loosens: on a candle that leaves the
\* trade open (it reaches neither the stop in force nor the take-profit) the
\* stop never decreases
\* for a LONG and never increases for a SHORT, in the simulator, in the
\* manager and in manage_trailing_stop, also where the step-mode clamp applies.
C1_StopNeverLoosens ==
    [][IF setup.direction = "LONG"
       THEN /\ bt'.current_stop >= bt.current_stop
            /\ tsm'.current_stop >= tsm.current_stop
            /\ (candle'.low > mts.current_stop /\ candle'.high < setup.take_profit)
                   => mts'.current_stop >= mts.current_stop
       ELSE /\ bt'.current_stop <= bt.current_stop
            /\ tsm'.current_stop <= tsm.current_stop
            /\ (candle'.high < mts.current_stop /\ candle'.low > setup.take_profit)
                   => mts'.current_stop <= mts.current_stop]_vars

\* The candle reaches the activation level of the run's trade: entry plus
\* (LONG) or minus (SHORT) trailing_activate_rr times the risk.
ActivationLevelReached(c) ==
    LET risk == IF setup.entry_price >= setup.initial_stop
                THEN setup.entry_price - setup.initial_stop
                ELSE setup.initial_stop - setup.entry_price
    IN IF setup.direction = "LONG"
       THEN c.high >= setup.entry_price + setup.trail_rr * risk
       ELSE c.low <= setup.entry_price - setup.trail_rr * risk

\* C14: in the simulator and in the manager trailing is inactive, with the
\* stop at the initial stop, until a bar reaches the activation level; the bar
\* that reaches it activates trailing, and once active it stays active on
\* every later bar.
C14_ActivationLatches ==
    [][/\ bt.trailing_active => bt'.trailing_active
       /\ tsm.trailing_active => tsm'.trailing_active
       /\ ~bt'.trailing_active => bt'.current_stop = setup.initial_stop
       /\ ~tsm'.trailing_active => tsm'.current_stop = setup.initial_stop
       /\ (~bt.trailing_active /\ bt'.trailing_active) => ActivationLevelReached(candle')
       /\ (~tsm.trailing_active /\ tsm'.trailing_active) => ActivationLevelReached(candle')
       /\ (phase = "bt" /\ bt.result = "NONE" /\ ActivationLevelReached(candle))
              => bt'.trailing_active
       /\ (phase = "tsm" /\ ActivationLevelReached(candle)) => tsm'.trailing_active]_vars

\* C14 witness: both machines are active after a second bar that does not
\* reach the activation level, the trade still open in the simulator.
C14_Witness ==
    /\ bars = 2
    /\ phase = "feed"
    /\ ~ActivationLevelReached(candle)
    /\ bt.result = "NONE"
    /\ bt.trailing_active
    /\ tsm.trailing_active

\* C15: in step mode the stop the manager proposes to the exchange is on the
\* right side of the current price, the candle's close: below it for a LONG,
\* above it for a SHORT.
C15_ProposedStopRightSide ==
    (ReplaceCalled /\ PositionSurvived /\ setup.mode = "step") =>
        IF setup.direction = "LONG"
        THEN last_replace.new_stop < last_replace.price
        ELSE last_replace.new_stop > last_replace.price

\* The stop the manager computed for the latest candle, from its state before
\* the candle, and the stop it held then (activation does not move the stop).
ComputedStop ==
    CalculateNewStop(setup, CheckActivation(setup, tsm_before.state, candle),
                     candle).new_stop

StopChange ==
    IF ComputedStop >= tsm_before.state.current_stop
    THEN ComputedStop - tsm_before.state.current_stop
    ELSE tsm_before.state.current_stop - ComputedStop

\* C16: while trailing is active, the manager requests a stop replacement for
\* a candle exactly when the stop computed for it differs from the held stop
\* by more than 0.01 price unit; with a smaller change nothing is requested
\* and the held stop and the exchange's stop order stay as they were.
C16_ReplaceIffAboveDelta ==
    (phase = "feed" /\ bars >= 1 /\ tsm.trailing_active) =>
        /\ (last_replace.outcome # "none") <=> (StopChange > Scale \div 100)
        /\ (StopChange <= Scale \div 100) =>
               /\ tsm.current_stop = tsm_before.state.current_stop
               /\ stop_order = tsm_before.stop_order

\* C16 witness: a candle moved the computed stop by exactly 0.01, nothing was
\* requested and the stop stayed.
C16_Witness ==
    /\ phase = "feed" /\ bars = 2
    /\ tsm.trailing_active
    /\ StopChange = Scale \div 100
    /\ last_replace.outcome = "none"
    /\ tsm.current_stop = tsm_before.state.current_stop

----------------------------------------------------------------------------
(* Live position handling: SymbolTrader.run with PositionManager, and the *)
(* TrailingStopManager task, against the exchange                          *)

\* How a position read (get_open_positions) can end: answered; an exchange or
\* network error, which BinanceFuturesExecutor.get_open_positions turns into
\* an empty list; no answer within the caller's timeout.
ReadResults == {"ok", "error", "timeout"}

\* PositionManager.has_position over PositionManager.get_open_positions: a
\* timeout and an error both give an empty list.
PmHasPosition(res) == res = "ok" /\ ex.position

\* TrailingStopManager.check_position_exists: a timeout counts as a position,
\* the empty list of a failed read does not.
TsmPositionExists(res) == res = "timeout" \/ (res = "ok" /\ ex.position)

\* Number of attempts of the two verify_position_closed calls.
PmVerifyAttempts == 5
TsmVerifyAttempts == 3

\* Consecutive reads without a position, counted up to two.
ZeroRun(run, has) == IF has THEN 0 ELSE Min(run + 1, 2)

Saturate(n) == Min(n + 1, 2)

ReadObserved(res) == [obs EXCEPT !.read_failed = @ \/ res # "ok"]

\* The live runs use the LONG step-mode set-up without buffer.
LiveConfigs ==
    {c \in BaseConfigs : c.direction = "LONG" /\ c.mode = "step" /\ c.buffer_pct = 0}

\* The candles of the live runs: from the entry price to the activation level
\* or one step beyond, closing at the far end.
LiveCandles(c) ==
    {k \in CandlesOf(c) :
        /\ k.close = (IF c.direction = "LONG" THEN k.high ELSE k.low)
        /\ IF c.direction = "LONG"
           THEN k.low = c.entry_price /\ k.high \in {P(102), P(103)}
           ELSE k.high = c.entry_price /\ k.low \in {P(98), P(97)}}

\* How the replace_stop_loss calls of the live runs end.
LiveReplaceOutcomes == {"ok", "error"}

InitLive ==
    /\ \E c \in LiveConfigs : TrailInitState(c)
    /\ \E open \in BOOLEAN :
          /\ ex = [position |-> open, protective |-> open]
          /\ pm = PmInit(open)
          /\ tsm_ctl = TsmCtlInit(open)
          /\ obs = ObsInit(open)
    /\ plan = PlanIdle
    /\ zn = ZonesIdle
    /\ tk = TasksIdle
    /\ rn = RunIdle
    /\ fx = FxIdle
    /\ tc = TickerIdle
    /\ rl = LimiterIdle

\* The position is closed on the exchange: its stop or its take-profit order
\* fills. The other order stays until somebody cancels it.
ExchangeClose ==
    /\ ex.position
    /\ obs.closures < MaxClosures
    /\ ex' = [ex EXCEPT !.position = FALSE]
    /\ obs' = [obs EXCEPT !.closures = @ + 1, !.notify_closed = 0,
                          !.cancel_calls = 0, !.was_flat = TRUE]
    /\ UNCHANGED <<pm, tsm_ctl>>
    /\ UNCHANGED <<trailVars, planVars, auxVars>>

\* _handle_position_closed returns to check_position_closed, which clears
\* _last_has_position and returns to the trading loop.
PmReturn(p) == [p EXCEPT !.pc = "trade", !.last_has_position = FALSE, !.attempt = 0]

\* check_position_closed: the read, and the call of _handle_position_closed
\* when the previous read showed a position and this one does not.
PmCheckPositionClosed ==
    /\ pm.pc = "loop"
    /\ \E res \in ReadResults :
          LET has == PmHasPosition(res)
              p == [pm EXCEPT !.zero_run = ZeroRun(@, has)]
          IN /\ pm' = IF pm.last_has_position /\ ~has
                      THEN [p EXCEPT !.pc = "verify", !.attempt = 1]
                      ELSE [p EXCEPT !.pc = "trade", !.last_has_position = has]
             /\ obs' = ReadObserved(res)
    /\ UNCHANGED <<ex, tsm_ctl>>
    /\ UNCHANGED <<trailVars, planVars, auxVars>>

\* One attempt of PositionManager.verify_position_closed(max_attempts=5): the
\* read (the second read of the attempt is only logged). Every attempt but
\* the last goes on to the next one whatever it read.
PmVerify ==
    /\ pm.pc = "verify"
    /\ \E res \in ReadResults :
          LET has == PmHasPosition(res)
              p == [pm EXCEPT !.zero_run = ZeroRun(@, has)]
          IN /\ pm' = IF pm.attempt < PmVerifyAttempts
                      THEN [p EXCEPT !.attempt = @ + 1]
                      ELSE IF has THEN PmReturn(p)
                      ELSE [p EXCEPT !.pc = "final_check", !.attempt = 0]
             /\ obs' = ReadObserved(res)
    /\ UNCHANGED <<ex, tsm_ctl>>
    /\ UNCHANGED <<trailVars, planVars, auxVars>>

\* _handle_position_closed after the verification: final_check, and the
\* choice between notifying and going straight to the order cleanup.
PmFinalCheck ==
    /\ pm.pc = "final_check"
    /\ \E res \in ReadResults :
          LET has == PmHasPosition(res)
              p == [pm EXCEPT !.zero_run = ZeroRun(@, has)]
          IN /\ pm' = IF has THEN PmReturn(p)
                      ELSE IF pm.current_position /\ ~pm.notification_sent
                      THEN [p EXCEPT !.pc = "last_check"]
                      ELSE [p EXCEPT !.pc = "order_check"]
             /\ obs' = ReadObserved(res)
    /\ UNCHANGED <<ex, tsm_ctl>>
    /\ UNCHANGED <<trailVars, planVars, auxVars>>

\* last_check, then the current price, the P&L, notify_position_closed and
\* the notification flag.
PmNotify ==
    /\ pm.pc = "last_check"
    /\ \E res \in ReadResults, pnl_positive \in BOOLEAN :
          LET has == PmHasPosition(res)
              p == [pm EXCEPT !.zero_run = ZeroRun(@, has)]
              o == ReadObserved(res)
          IN IF has
             THEN pm' = PmReturn(p) /\ obs' = o
             ELSE /\ pm' = [p EXCEPT !.pc = "post_check", !.notification_sent = TRUE]
                  /\ obs' = Notified(o, PmReason(tsm.trailing_active, pnl_positive),
                                     tsm.trailing_active, pnl_positive)
    /\ UNCHANGED <<ex, tsm_ctl>>
    /\ UNCHANGED <<trailVars, planVars, auxVars>>

\* post_notification_check: a position found here ends the handling without
\* the order cleanup.
PmPostCheck ==
    /\ pm.pc = "post_check"
    /\ \E res \in ReadResults :
          LET has == PmHasPosition(res)
              p == [pm EXCEPT !.zero_run = ZeroRun(@, has)]
          IN /\ pm' = IF has THEN PmReturn(p) ELSE [p EXCEPT !.pc = "order_check"]
             /\ obs' = ReadObserved(res)
    /\ UNCHANGED <<ex, tsm_ctl>>
    /\ UNCHANGED <<trailVars, planVars, auxVars>>

\* final_order_check, then cancel_all_conditional_orders and
\* current_position = None.
PmCancel ==
    /\ pm.pc = "order_check"
    /\ \E res \in ReadResults :
          LET has == PmHasPosition(res)
              p == [pm EXCEPT !.zero_run = ZeroRun(@, has)]
              o == ReadObserved(res)
          IN IF has
             THEN pm' = PmReturn(p) /\ obs' = o /\ ex' = ex
             ELSE /\ pm' = PmReturn([p EXCEPT !.current_position = FALSE])
                  /\ obs' = [o EXCEPT !.cancel_calls = Saturate(@)]
                  /\ ex' = [ex EXCEPT !.protective = FALSE]
    /\ UNCHANGED tsm_ctl
    /\ UNCHANGED <<trailVars, planVars, auxVars>>

\* _start_trailing_stop: a new TrailingStopManager for the position just
\* opened, whose stop order rests at the initial stop.
TrailingStarted ==
    /\ tsm' = TrailInit(setup)
    /\ stop_order' = RoundPrice(setup.tick, setup.initial_stop)
    /\ last_replace' = NoReplace
    /\ tsm_before' = [state |-> TrailInit(setup),
                      stop_order |-> RoundPrice(setup.tick, setup.initial_stop)]
    /\ accepted' = TRUE
    /\ UNCHANGED <<setup, bars, phase, candle, bt, mts, mts_replace>>
    /\ UNCHANGED <<planVars, auxVars>>

\* How PositionManager.open_position can end: the market order, the stop and
\* the take-profit placed; the market order refused; the market order filled
\* and the placing of the stop failed or timed out.
OpenOutcomes == {"ok", "open_failed", "sl_failed"}

\* The rest of an iteration of SymbolTrader.run: the price, the has_position
\* read, and with no position read _check_breakouts, which on a breakout that
\* passes the validations calls open_position and starts the trailing task.
\* The model follows the trailing task started last.
TraderCheckBreakouts ==
    /\ pm.pc = "trade"
    /\ \E price_ok \in BOOLEAN, res \in ReadResults, breakout \in BOOLEAN,
          outcome \in OpenOutcomes :
          LET has == PmHasPosition(res)
              p == [pm EXCEPT !.pc = "loop"]
              q == [p EXCEPT !.zero_run = ZeroRun(@, has)]
              o == ReadObserved(res)
          IN IF ~price_ok
             THEN pm' = p /\ UNCHANGED <<obs, ex, tsm_ctl>> /\ UNCHANGED <<trailVars, planVars, auxVars>>
             ELSE IF has \/ ~breakout \/ obs.opens >= MaxOpens
             THEN pm' = q /\ obs' = o /\ UNCHANGED <<ex, tsm_ctl>>
                  /\ UNCHANGED <<trailVars, planVars, auxVars>>
             ELSE /\ obs' = [o EXCEPT !.opens = @ + 1,
                                      !.open_over_position = @ \/ ex.position]
                  /\ IF outcome = "ok"
                     THEN /\ ex' = [position |-> TRUE, protective |-> TRUE]
                          /\ pm' = [q EXCEPT !.current_position = TRUE,
                                             !.notification_sent = FALSE]
                          /\ tsm_ctl' = TsmCtlInit(TRUE)
                          /\ TrailingStarted
                     ELSE /\ ex' = [ex EXCEPT !.position = @ \/ outcome = "sl_failed"]
                          /\ pm' = q
                          /\ UNCHANGED tsm_ctl
                          /\ UNCHANGED <<trailVars, planVars, auxVars>>

\* TrailingStopManager.run: the position check that opens an iteration.
TsmCheckPosition ==
    /\ tsm_ctl.pc = "poll"
    /\ \E res \in ReadResults :
          LET has == TsmPositionExists(res)
              t == [tsm_ctl EXCEPT !.zero_run = ZeroRun(@, has)]
          IN /\ tsm_ctl' = IF has THEN [t EXCEPT !.pc = "kline"]
                           ELSE [t EXCEPT !.pc = "verify", !.attempt = 1]
             /\ obs' = ReadObserved(res)
    /\ UNCHANGED <<ex, pm>>
    /\ UNCHANGED <<trailVars, planVars, auxVars>>

\* One attempt of TrailingStopManager.verify_position_closed(max_attempts=3).
\* Every attempt but the last goes on whatever it read; when the last one
\* finds a position, handle_position_closed returns and run leaves its loop.
TsmVerify ==
    /\ tsm_ctl.pc = "verify"
    /\ \E res \in ReadResults :
          LET has == TsmPositionExists(res)
              t == [tsm_ctl EXCEPT !.zero_run = ZeroRun(@, has)]
          IN /\ tsm_ctl' = IF tsm_ctl.attempt < TsmVerifyAttempts
                           THEN [t EXCEPT !.attempt = @ + 1]
                           ELSE IF has THEN [t EXCEPT !.pc = "stopped", !.attempt = 0]
                           ELSE [t EXCEPT !.pc = "notify", !.attempt = 0,
                                          !.confirmed = TRUE]
             /\ obs' = ReadObserved(res)
    /\ UNCHANGED <<ex, pm>>
    /\ UNCHANGED <<trailVars, planVars, auxVars>>

\* handle_position_closed after the verification: the exit price, the P&L
\* and the reason, then notify_position_closed unless the manager's own flag
\* is set.
TsmNotify ==
    /\ tsm_ctl.pc = "notify"
    /\ tsm_ctl' = [tsm_ctl EXCEPT !.pc = "cancel", !.notification_sent = TRUE]
    /\ \E pnl_positive \in BOOLEAN :
          obs' = IF tsm_ctl.notification_sent THEN obs
                 ELSE Notified(obs, TsmReason(tsm.trailing_active, pnl_positive),
                               tsm.trailing_active, pnl_positive)
    /\ UNCHANGED <<ex, pm>>
    /\ UNCHANGED <<trailVars, planVars, auxVars>>

\* cancel_all_conditional_orders, after which run leaves its loop.
TsmCancel ==
    /\ tsm_ctl.pc = "cancel"
    /\ tsm_ctl' = [tsm_ctl EXCEPT !.pc = "stopped"]
    /\ obs' = [obs EXCEPT !.cancel_calls = Saturate(@)]
    /\ ex' = [ex EXCEPT !.protective = FALSE]
    /\ UNCHANGED pm
    /\ UNCHANGED <<trailVars, planVars, auxVars>>

\* The rest of an iteration with a position: the latest candle, if there is
\* one, goes through check_activation, calculate_new_stop and update_stop_loss.
TsmCandle ==
    /\ tsm_ctl.pc = "kline"
    /\ tsm_ctl' = [tsm_ctl EXCEPT !.pc = "poll"]
    /\ \/ UNCHANGED <<tsm, last_replace, tsm_before, stop_order, accepted, candle>>
       \/ \E c \in LiveCandles(setup), outcome \in LiveReplaceOutcomes :
             TsmCandleEffect(c, outcome) /\ candle' = c
    /\ UNCHANGED <<setup, bars, phase, bt, mts, mts_replace>>
    /\ UNCHANGED <<ex, pm, obs>>
    /\ UNCHANGED <<planVars, auxVars>>

NextLive ==
    \/ ExchangeClose
    \/ PmCheckPositionClosed \/ PmVerify \/ PmFinalCheck \/ PmNotify
    \/ PmPostCheck \/ PmCancel
    \/ TraderCheckBreakouts
    \/ TsmCheckPosition \/ TsmVerify \/ TsmNotify \/ TsmCancel \/ TsmCandle

SpecLive == InitLive /\ [][NextLive]_vars

----------------------------------------------------------------------------
(* Properties of the live position handling *)

\* C3: for one position closure notify_position_closed is called once and the
\* cancellation of the conditional orders is requested once, across
\* PositionManager and the TrailingStopManager task (calls are counted from
\* the closure; every position read was answered).
C3_ClosureHandledOnce ==
    (obs.closures >= 1 /\ ~obs.read_failed) =>
        (obs.notify_closed <= 1 /\ obs.cancel_calls <= 1)

\* C4: no open-position order is issued while the exchange holds a position
\* for the symbol, also after a failed or timed-out position read.
C4_NoOpenOverPosition == ~obs.open_over_position

\* C5: closure handling (notification, cancellation) starts only after more
\* than one consecutive read without a position: a handler past its
\* verification has at least two such reads behind it.
C5_HandledAfterConsecutiveZeros ==
    /\ tsm_ctl.pc \in {"notify", "cancel"} => tsm_ctl.zero_run >= 2
    /\ pm.pc \in {"last_check", "post_check", "order_check"} => pm.zero_run >= 2

\* C6: a failed or timed-out read is never taken for a position of zero:
\* while the position has been open throughout, no closure is notified, no
\* order is cancelled and no open-position order is issued.
C6_FailedReadIsNotZero ==
    ~obs.was_flat =>
        (obs.notify_closed = 0 /\ obs.cancel_calls = 0 /\ obs.opens = 0)

\* C7: when the verification after a read without a position finds the
\* position open, nothing is notified or cancelled and the trailing loop keeps
\* running: the loop has ended only after a confirmed closure.
C7_UnconfirmedClosureKeepsLoop == tsm_ctl.pc = "stopped" => tsm_ctl.confirmed

\* C17: the cancellation of the protective orders is requested only after the
\* close notification of that closure has been emitted (calls are counted
\* from the closure; every position read was answered).
C17_NotifyBeforeCancel ==
    [][(obs'.cancel_calls > obs.cancel_calls /\ ~obs'.read_failed)
           => obs'.notify_closed >= 1]_vars

\* C18: the close notification of the position the run started with reports
\* Trailing Stop if trailing had activated for it, otherwise Take Profit if
\* the P&L is above zero, otherwise Stop Loss, whichever component sends it.
C18_ReasonClassified ==
    (obs.reason # "none" /\ obs.opens = 0) =>
        obs.reason = (IF obs.trailing_at_close THEN "Trailing Stop"
                      ELSE IF obs.pnl_positive THEN "Take Profit"
                      ELSE "Stop Loss")

----------------------------------------------------------------------------
(* The planner, the simulator and the live detector over one growing series *)

InitPlan ==
    /\ \E c \in LiveConfigs : TrailInitState(c)
    /\ ex = [position |-> FALSE, protective |-> FALSE]
    /\ pm = PmInit(FALSE)
    /\ tsm_ctl = TsmCtlInit(FALSE)
    /\ obs = ObsInit(FALSE)
    /\ \E z \in ZoneCandles(PlanZone), b \in PriorData, m \in SlMethods :
          plan = [PlanIdle EXCEPT !.before = b, !.sl_method = m, !.series = <<z>>]
    /\ zn = ZonesIdle
    /\ tk = TasksIdle
    /\ rn = RunIdle
    /\ fx = FxIdle
    /\ tc = TickerIdle
    /\ rl = LimiterIdle

\* The next candle after the zone closes and joins the series.
AppendCandle ==
    /\ Len(plan.series) < MaxSeries
    /\ \E c \in PlanCandles :
          plan' = [plan EXCEPT !.series = Append(@, c), !.simulated = FALSE,
                               !.levels = NoTrade, !.trade = NoTrade,
                               !.detected = "unchecked"]
    /\ fx' = FxIdle
    /\ UNCHANGED <<trailVars, liveVars, zn, tk, rn, tc, rl>>

\* backtest_zone is run for the zone on the series as it stands; levels is
\* what its call of _calc_levels returned.
RunBacktestZone ==
    /\ ~plan.simulated
    /\ plan' = [plan EXCEPT !.simulated = TRUE,
                            !.levels = CalcLevels(plan.zone, plan.series,
                                                  plan.before, plan.sl_method),
                            !.trade = BacktestZone(plan.zone, plan.series,
                                                   plan.before, plan.sl_method)]
    /\ UNCHANGED <<trailVars, liveVars, auxVars>>

\* The live loop hands the latest closed candle, which closed after the zone
\* end, to detect_breakout.
RunDetectBreakout ==
    /\ Len(plan.series) > plan.zone.end
    /\ plan.detected = "unchecked"
    /\ plan' = [plan EXCEPT !.detected =
                                DetectBreakout(plan.zone, plan.series[Len(plan.series)])]
    /\ UNCHANGED <<trailVars, liveVars, auxVars>>

\* simulate_all: backtest_zone for every zone, and the counts it reports: the
\* trades, the zones without a trade that no candle follows, and the rest as
\* zones without breakout.
SimulateAll(zones, series, before, sl_method) ==
    LET traded == {i \in DOMAIN zones :
                      BacktestZone(zones[i], series, before, sl_method).result # "NONE"}
        no_next == {i \in DOMAIN zones \ traded : ~(Len(series) > zones[i].end)}
    IN [op |-> "simulate_all", total_zones |-> Len(zones),
        successful_trades |-> Cardinality(traded),
        no_next_candle |-> Cardinality(no_next),
        no_breakout |-> Len(zones) - Cardinality(traded) - Cardinality(no_next)]

\* simulate_all is run on the series as it stands.
RunSimulateAll ==
    /\ fx.op = "none"
    /\ fx' = SimulateAll(<<plan.zone>>, plan.series, plan.before, plan.sl_method)
    /\ UNCHANGED <<trailVars, liveVars, planVars, zn, tk, rn, tc, rl>>

NextPlan == AppendCandle \/ RunBacktestZone \/ RunDetectBreakout \/ RunSimulateAll

SpecPlan == InitPlan /\ [][NextPlan]_vars

----------------------------------------------------------------------------
(* Properties of the planner *)

\* backtest_zone has returned a trade for the series.
TradeReturned == plan.simulated /\ plan.trade.result # "NONE"

\* C11: every trade the simulator returns (WIN, LOSS or OPEN) has its exit
\* time strictly after its entry time, and has a candle after its breakout
\* candle: a breakout on the last bar of the series yields no trade.
C11_ExitAfterEntry ==
    TradeReturned =>
        /\ plan.trade.result \in {"WIN", "LOSS", "OPEN"}
        /\ plan.trade.exit_time > plan.trade.entry_time
        /\ plan.trade.entry_time < Len(plan.series)

\* C11 witness: the breakout candle itself reaches the trade's stop, the trade
\* is returned, and it ends on a later candle.
C11_Witness ==
    /\ TradeReturned
    /\ plan.trade.direction = "LONG"
    /\ plan.series[plan.trade.entry_time].low <= plan.trade.stop_loss
    /\ plan.trade.result = "LOSS"
    /\ plan.trade.exit_time = plan.trade.entry_time + 1

\* The candle at index i is a confirmed breakout of the zone: high and close
\* above the zone high, or low and close below the zone low.
Confirmed(i) ==
    LET c == plan.series[i]
    IN \/ c.high > plan.zone.high /\ c.close > plan.zone.high
       \/ c.low < plan.zone.low /\ c.close < plan.zone.low

\* C12: the planned breakout candle is the chronologically first candle from
\* the zone's final candle on that is a confirmed breakout, LONG when its high
\* and close are above the zone, SHORT when its low and close are below; with
\* no such candle in the series nothing is planned.
C12_FirstConfirmedBreakout ==
    LET t == plan.levels
        n == Len(plan.series)
    IN plan.simulated =>
       /\ (\A i \in 1..n : ~Confirmed(i)) => t.direction = "NONE"
       /\ (\E i \in 1..n : Confirmed(i)) =>
             /\ t.entry_time \in 1..n
             /\ Confirmed(t.entry_time)
             /\ \A j \in 1..(t.entry_time - 1) : ~Confirmed(j)
             /\ t.direction = (IF plan.series[t.entry_time].close > plan.zone.high
                               THEN "LONG" ELSE "SHORT")
             /\ t.entry_price = plan.series[t.entry_time].close

\* C12 witness: a candle whose wick exceeds the zone high and whose close does
\* not is passed over, and the candle after it is planned as the breakout.
C12_Witness ==
    /\ Len(plan.series) = 3
    /\ plan.series[2].high > plan.zone.high
    /\ plan.series[2].close <= plan.zone.high
    /\ plan.series[2].low >= plan.zone.low
    /\ plan.simulated
    /\ plan.levels.entry_time = 3

\* C13: for a closed candle after the zone end the live detector reports LONG
\* (SHORT) exactly when the planner's confirmed-breakout test gives LONG
\* (SHORT) for that candle.
C13_LiveDetectsPlannerBreakout ==
    (plan.detected # "unchecked") =>
        plan.detected = PlannerBreakout(plan.zone, plan.series[Len(plan.series)])

----------------------------------------------------------------------------
(* Live zone bookkeeping: which zone a breakout may be traded from          *)

\* Zones are told apart by a key that grows with their end time; at most
\* MaxZoneKey zones form during a run.
MaxZoneKey == 3

\* The two live programs: SymbolTrader (trader.py) and trade_symbol
\* (main_live.py).
ZonePaths == {"trader", "legacy"}

\* The zones of the latest detection run: the keys first..last. group_zones
\* numbers them by their ordinal within the run.
ZoneKeys(z) == z.first .. z.last

ZoneIdOf(z, key) == key - z.first + 1

ZoneIds(z) == {ZoneIdOf(z, k) : k \in ZoneKeys(z)}

\* get_newest_untraded_zone: the newest zone but the one whose id is the
\* trader's current_zone_id (0: no zone is left).
GetNewestUntradedZone(z) ==
    LET candidate_zones ==
            {k \in ZoneKeys(z) :
                ~(z.current_zone_id # 0 /\ ZoneIdOf(z, k) = z.current_zone_id)}
    IN IF candidate_zones = {} THEN 0
       ELSE CHOOSE k \in candidate_zones : \A j \in candidate_zones : k >= j

\* trade_symbol: the newest zone whose id is not in traded_zones.
LegacyNewestZone(z) ==
    LET candidate_zones == {k \in ZoneKeys(z) : ZoneIdOf(z, k) \notin z.traded_zones}
    IN IF candidate_zones = {} THEN 0
       ELSE CHOOSE k \in candidate_zones : \A j \in candidate_zones : k >= j

NewestEligibleZone(z) ==
    IF z.path = "trader" THEN GetNewestUntradedZone(z) ELSE LegacyNewestZone(z)

InitZones ==
    /\ \E c \in LiveConfigs : TrailInitState(c)
    /\ ex = [position |-> FALSE, protective |-> FALSE]
    /\ pm = PmInit(FALSE)
    /\ tsm_ctl = TsmCtlInit(FALSE)
    /\ obs = ObsInit(FALSE)
    /\ plan = PlanIdle
    /\ tk = TasksIdle
    /\ rn = RunIdle
    /\ fx = FxIdle
    /\ tc = TickerIdle
    /\ rl = LimiterIdle
    /\ \E path \in ZonePaths, n \in 1..2 :
          zn = [ZonesIdle EXCEPT !.path = path, !.last = n]

\* With no position, the latest closed candle breaks out of the newest
\* eligible zone and the position is opened: _handle_breakout sets
\* current_zone_id, trade_symbol adds the zone id to traded_zones.
ZoneBreakout ==
    /\ ~zn.position
    /\ NewestEligibleZone(zn) # 0
    /\ LET k == NewestEligibleZone(zn)
       IN zn' = [zn EXCEPT
                    !.position = TRUE,
                    !.current_zone_id = IF zn.path = "trader" THEN ZoneIdOf(zn, k) ELSE @,
                    !.traded_zones = IF zn.path = "legacy"
                                     THEN @ \cup {ZoneIdOf(zn, k)} ELSE @,
                    !.used = @ \cup {k},
                    !.reopened = @ \/ k \in zn.used]
    /\ UNCHANGED <<trailVars, liveVars, planVars, tk, rn, fx, tc, rl>>

\* The position is closed and the closure handled: PositionManager releases
\* the trader's zone (current_zone_id = None); trade_symbol keeps traded_zones.
ZonePositionClosed ==
    /\ zn.position
    /\ zn' = [zn EXCEPT !.position = FALSE,
                        !.current_zone_id = IF zn.path = "trader" THEN 0 ELSE @]
    /\ UNCHANGED <<trailVars, liveVars, planVars, tk, rn, fx, tc, rl>>

\* A data refresh recomputes the zones: the oldest zone has left the data, or
\* a new zone has formed, and the ids are the ordinals of the new run.
\* trade_symbol keeps the traded ids that are still ids of a zone; the trader
\* keeps current_zone_id.
RefreshData ==
    /\ \E drop \in 0..1, grow \in 0..1 :
          /\ drop + grow >= 1
          /\ zn.last + grow <= MaxZoneKey
          /\ zn.first + drop <= zn.last + grow
          /\ LET z == [zn EXCEPT !.first = @ + drop, !.last = @ + grow]
             IN zn' = [z EXCEPT !.traded_zones =
                                    IF zn.path = "legacy"
                                    THEN {id \in @ : id \in ZoneIds(z)} ELSE @]
    /\ UNCHANGED <<trailVars, liveVars, planVars, tk, rn, fx, tc, rl>>

NextZones == ZoneBreakout \/ ZonePositionClosed \/ RefreshData

SpecZones == InitZones /\ [][NextZones]_vars

\* C19: no second position is opened from a zone a position was opened from
\* before, also after that position has closed and after a data refresh has
\* renumbered the zones.
C19_ZoneTradedOnce == ~zn.reopened

----------------------------------------------------------------------------
(* The trailing-stop tasks of one symbol over successive positions          *)

\* Number of positions opened during a run.
MaxPositions == 2

\* The task _start_trailing_stop creates for the position numbered n: a new
\* TrailingStopManager about to make its first position check.
NewTask(cfg, n) ==
    [pc |-> "poll", attempt |-> 0, position |-> n, state |-> TrailInit(cfg)]

\* The tasks whose run loop has not ended.
RunningTasks(t) == {i \in DOMAIN t.task : t.task[i].pc # "stopped"}

\* check_position_exists as a task started for any position reads it: the
\* exchange reports the symbol's position, whichever trade opened it.
TaskPositionExists(res) == res = "timeout" \/ (res = "ok" /\ tk.position # 0)

InitTasks ==
    /\ \E c \in LiveConfigs : TrailInitState(c)
    /\ ex = [position |-> FALSE, protective |-> FALSE]
    /\ pm = PmInit(FALSE)
    /\ tsm_ctl = TsmCtlInit(FALSE)
    /\ obs = ObsInit(FALSE)
    /\ plan = PlanIdle
    /\ zn = ZonesIdle
    /\ tk = TasksIdle
    /\ rn = RunIdle
    /\ fx = FxIdle
    /\ tc = TickerIdle
    /\ rl = LimiterIdle

\* The exchange closes the position (stop or take-profit filled).
TaskExchangeClose ==
    /\ tk.position # 0
    /\ tk' = [tk EXCEPT !.position = 0]
    /\ UNCHANGED <<trailVars, liveVars, planVars, zn, rn, fx, tc, rl>>

\* _handle_breakout with no position: the position is opened and
\* _start_trailing_stop creates a task for it; trailing_task is overwritten
\* and the task it held is left as it is.
TaskOpenPosition ==
    /\ ~tk.cleaned
    /\ tk.position = 0
    /\ tk.opened < MaxPositions
    /\ tk' = [tk EXCEPT !.position = tk.opened + 1,
                        !.opened = @ + 1,
                        !.task = Append(@, NewTask(setup, tk.opened + 1))]
    /\ UNCHANGED <<trailVars, liveVars, planVars, zn, rn, fx, tc, rl>>

\* TrailingStopManager.run of task i: the position check that opens an
\* iteration.
TaskCheckPosition(i) ==
    /\ tk.task[i].pc = "poll"
    /\ \E res \in ReadResults :
          tk' = [tk EXCEPT !.task[i] =
                    IF TaskPositionExists(res) THEN [@ EXCEPT !.pc = "kline"]
                    ELSE [@ EXCEPT !.pc = "verify", !.attempt = 1]]
    /\ UNCHANGED <<trailVars, liveVars, planVars, zn, rn, fx, tc, rl>>

\* handle_position_closed of task i: the attempts of verify_position_closed;
\* after the last one run leaves its loop, with the closure handled or not.
TaskVerify(i) ==
    /\ tk.task[i].pc = "verify"
    /\ \E res \in ReadResults :
          tk' = [tk EXCEPT !.task[i] =
                    IF @.attempt < TsmVerifyAttempts
                    THEN [@ EXCEPT !.attempt = @ + 1]
                    ELSE [@ EXCEPT !.pc = "stopped", !.attempt = 0]]
    /\ UNCHANGED <<trailVars, liveVars, planVars, zn, rn, fx, tc, rl>>

\* The rest of an iteration of task i: the latest candle, if there is one,
\* goes through check_activation, calculate_new_stop and update_stop_loss.
\* stale_replace: replace_stop_loss was called by a task started for an earlier
\* position than the latest one opened.
TaskCandle(i) ==
    /\ tk.task[i].pc = "kline"
    /\ \/ tk' = [tk EXCEPT !.task[i].pc = "poll"]
       \/ \E c \in LiveCandles(setup), outcome \in LiveReplaceOutcomes :
             LET r == TsmOnCandle(setup, tk.task[i].state, c, outcome)
             IN tk' = [tk EXCEPT
                          !.task[i] = [@ EXCEPT !.pc = "poll", !.state = r.state],
                          !.stale_replace =
                              @ \/ (r.replace.outcome # "none"
                                    /\ tk.task[i].position < tk.opened),
                          !.late_replace =
                              @ \/ (r.replace.outcome # "none" /\ tk.cleaned)]
    /\ UNCHANGED <<trailVars, liveVars, planVars, zn, rn, fx, tc, rl>>

\* SymbolTrader.stop.
TaskStop ==
    /\ tk.running
    /\ tk' = [tk EXCEPT !.running = FALSE]
    /\ UNCHANGED <<trailVars, liveVars, planVars, zn, rn, fx, tc, rl>>

\* run finds _running False and leaves its loop; cleanup cancels
\* self.trailing_task, the task started last, and awaits it.
TaskCleanup ==
    /\ ~tk.running /\ ~tk.cleaned
    /\ tk' = [tk EXCEPT !.cleaned = TRUE,
                        !.task = [i \in DOMAIN @ |->
                                     IF i = Len(@) THEN [@[i] EXCEPT !.pc = "stopped"]
                                     ELSE @[i]]]
    /\ UNCHANGED <<trailVars, liveVars, planVars, zn, rn, fx, tc, rl>>

NextTasks ==
    \/ TaskExchangeClose
    \/ TaskOpenPosition
    \/ TaskStop
    \/ TaskCleanup
    \/ \E i \in DOMAIN tk.task : TaskCheckPosition(i)
    \/ \E i \in DOMAIN tk.task : TaskVerify(i)
    \/ \E i \in DOMAIN tk.task : TaskCandle(i)

SpecTasks == InitTasks /\ [][NextTasks]_vars

\* C20: at most one trailing-stop task runs for the symbol, a running task is
\* the one started for the latest position opened, and no task started for an
\* earlier position calls replace_stop_loss once a later position is opened.
C20_OneTrailingTask ==
    /\ Cardinality(RunningTasks(tk)) <= 1
    /\ \A i \in RunningTasks(tk) : tk.task[i].position = tk.opened
    /\ ~tk.stale_replace

----------------------------------------------------------------------------
(* trade_symbols: the traders of several symbols and their main loops       *)

\* The symbols, in the order trade_symbols initializes them.
Symbols == {1, 2}

\* Iterations of the traders' main loops during a run, all symbols together.
MaxIterations == 3

\* How the margin read of validate_margin can end.
MarginResults == {"sufficient", "insufficient", "none", "timeout", "error"}

\* The mutant of ValidateMargin: the margin is never found short.
ValidateMarginAlways(m) == TRUE

\* validate_margin: False when no margin is available or the required margin
\* exceeds it; a read that times out or fails counts as sufficient.
ValidateMargin(m) == m \notin {"insufficient", "none"}

\* A SymbolTrader as constructed. check: the validation inputs of the latest
\* breakout that reached the validation; rejected: a breakout has failed
\* validation; closed_handled: PositionManager has handled the closure of the
\* latest position; closures, handled: the positions the exchange has closed
\* and the closures PositionManager has handled.
NewTrader ==
    [pc |-> "new", position |-> FALSE, protective |-> FALSE,
     last_has_position |-> FALSE, current_position |-> FALSE,
     notification_sent |-> FALSE, zone_locked |-> FALSE, trailing |-> FALSE,
     activated |-> FALSE, trail_notify_raised |-> FALSE, orders |-> 0,
     iterations |-> 0, last |-> "none", check |-> [rv |-> "none", margin |-> "none"],
     rejected |-> FALSE, closed_handled |-> FALSE, closures |-> 0, handled |-> 0]

\* PositionManager.check_position_closed with truthful position reads: on a
\* closure the zone is released, the notification sent unless the shared flag
\* is set, and the conditional orders cancelled if the notification went out
\* or there was no position record.
CheckPositionClosed(t, notify_raises) ==
    IF t.last_has_position /\ ~t.position
    THEN LET notification_sent ==
                 t.current_position /\ (t.notification_sent \/ ~notify_raises)
         IN [t EXCEPT !.zone_locked = FALSE,
                      !.notification_sent = @ \/ notification_sent,
                      !.protective = IF notification_sent \/ ~t.current_position
                                     THEN FALSE ELSE @,
                      !.current_position = FALSE,
                      !.last_has_position = FALSE,
                      !.closed_handled = TRUE,
                      !.handled = @ + 1]
    ELSE [t EXCEPT !.last_has_position = t.position]

\* run leaves its loop on an exception, and cleanup cancels the trailing task.
Raised(t) == [t EXCEPT !.pc = "ended", !.last = "raised", !.trailing = FALSE]

\* _handle_breakout: the price (0.0 when the read fails, which makes
\* 105.0 / entry_price raise), round_and_validate, validate_margin,
\* open_position, and on its success the zone lock and the trailing task.
\* open_position sends the market order, the stop and the take-profit, stores
\* the position and calls notify_position_opened inside one try block.
HandleBreakout(t, use_trailing, price, rv, margin, open, notify_raises) ==
    IF price = "zero" \/ rv = "raises" THEN Raised(t)
    ELSE LET c == [t EXCEPT !.check = [rv |-> rv, margin |-> margin]]
         IN IF rv = "invalid"
            THEN [c EXCEPT !.last = "invalid", !.rejected = TRUE]
            ELSE IF ~ValidateMargin(margin)
            THEN [c EXCEPT !.last = "no_margin", !.rejected = TRUE]
            ELSE IF open = "open_failed"
            THEN [c EXCEPT !.last = "open_failed", !.orders = @ + 1]
            ELSE IF open = "sl_failed"
            THEN [c EXCEPT !.last = "sl_failed", !.orders = @ + 2, !.position = TRUE]
            ELSE LET o == [c EXCEPT !.orders = @ + 3, !.position = TRUE,
                                    !.protective = TRUE, !.current_position = TRUE,
                                    !.notification_sent = FALSE,
                                    !.closed_handled = FALSE]
                 IN IF notify_raises THEN [o EXCEPT !.last = "open_notify_raised"]
                    ELSE [o EXCEPT !.last = "opened", !.zone_locked = TRUE,
                                   !.trailing = use_trailing, !.activated = FALSE,
                                   !.trail_notify_raised = FALSE]

\* One pass of the body of SymbolTrader.run's loop.
Iteration(t, use_trailing, price, breakout, price2, rv, margin, open, notify_raises) ==
    LET c == [CheckPositionClosed(t, notify_raises) EXCEPT !.iterations = @ + 1]
    IN IF price = "zero" THEN [c EXCEPT !.last = "no_price"]
       ELSE IF c.position THEN [c EXCEPT !.last = "position"]
       ELSE IF ~breakout THEN [c EXCEPT !.last = "no_breakout"]
       ELSE HandleBreakout(c, use_trailing, price2, rv, margin, open, notify_raises)

InitRun ==
    /\ \E c \in LiveConfigs : TrailInitState(c)
    /\ ex = [position |-> FALSE, protective |-> FALSE]
    /\ pm = PmInit(FALSE)
    /\ tsm_ctl = TsmCtlInit(FALSE)
    /\ obs = ObsInit(FALSE)
    /\ plan = PlanIdle
    /\ zn = ZonesIdle
    /\ tk = TasksIdle
    /\ fx = FxIdle
    /\ tc = TickerIdle
    /\ rl = LimiterIdle
    /\ \E use_trailing \in BOOLEAN :
          rn = [stage |-> "init", use_trailing |-> use_trailing,
                trader |-> [s \in Symbols |-> NewTrader]]

\* trade_symbols creates and initializes the traders one after the other; an
\* exception of initialize leaves trade_symbols. After the last one the loops
\* of all traders are started together.
RunInitialize ==
    /\ rn.stage = "init"
    /\ LET s == CHOOSE x \in Symbols :
                   /\ rn.trader[x].pc = "new"
                   /\ \A y \in Symbols : y < x => rn.trader[y].pc = "ready"
       IN \E raises \in BOOLEAN :
             rn' = IF raises
                   THEN [rn EXCEPT !.stage = "aborted", !.trader[s].pc = "failed"]
                   ELSE IF \A y \in Symbols : y > s => FALSE
                   THEN [rn EXCEPT !.stage = "run",
                                   !.trader = [y \in Symbols |->
                                                  [rn.trader[y] EXCEPT !.pc = "loop"]]]
                   ELSE [rn EXCEPT !.trader[s].pc = "ready"]
    /\ UNCHANGED <<trailVars, liveVars, planVars, zn, tk, fx, tc, rl>>

\* What one iteration meets: the price read, whether the latest closed candle
\* breaks out, and for a breakout the second price read, round_and_validate,
\* the margin read and open_position, each as far as the iteration gets.
IterationInputs ==
    LET in(price, breakout, price2, rv, margin, open) ==
            [price |-> price, breakout |-> breakout, price2 |-> price2, rv |-> rv,
             margin |-> margin, open |-> open]
    IN {in("zero", FALSE, "ok", "valid", "sufficient", "ok"),
        in("ok", FALSE, "ok", "valid", "sufficient", "ok"),
        in("ok", TRUE, "zero", "valid", "sufficient", "ok"),
        in("ok", TRUE, "ok", "raises", "sufficient", "ok"),
        in("ok", TRUE, "ok", "invalid", "sufficient", "ok")}
       \cup {in("ok", TRUE, "ok", "valid", m, "ok") : m \in MarginResults}
       \cup {in("ok", TRUE, "ok", "valid", "sufficient", o) : o \in OpenOutcomes}

RunIteration(s) ==
    /\ rn.stage = "run"
    /\ rn.trader[s].pc = "loop"
    /\ rn.trader[1].iterations + rn.trader[2].iterations < MaxIterations
    /\ \E i \in IterationInputs, notify_raises \in BOOLEAN :
          rn' = [rn EXCEPT !.trader[s] =
                    Iteration(@, rn.use_trailing, i.price, i.breakout, i.price2, i.rv,
                              i.margin, i.open, notify_raises)]
    /\ UNCHANGED <<trailVars, liveVars, planVars, zn, tk, fx, tc, rl>>

\* The exchange fills the stop or the take-profit of the symbol's position.
RunExchangeClose(s) ==
    /\ rn.stage = "run"
    /\ rn.trader[s].position
    /\ rn' = [rn EXCEPT !.trader[s].position = FALSE, !.trader[s].closures = @ + 1]
    /\ UNCHANGED <<trailVars, liveVars, planVars, zn, tk, fx, tc, rl>>

\* The trailing task's candle reaches the activation level: check_activation
\* sets trailing_active and then calls notify_trailing_activated in a try block.
RunTrailingActivation(s) ==
    /\ rn.trader[s].trailing /\ rn.trader[s].position /\ ~rn.trader[s].activated
    /\ \E notify_raises \in BOOLEAN :
          rn' = [rn EXCEPT !.trader[s].activated = TRUE,
                           !.trader[s].trail_notify_raised = notify_raises]
    /\ UNCHANGED <<trailVars, liveVars, planVars, zn, tk, fx, tc, rl>>

\* The trailing task reads no position: handle_position_closed notifies unless
\* the shared flag is set, cancels the conditional orders, and run ends.
RunTrailingClosed(s) ==
    /\ rn.trader[s].trailing /\ ~rn.trader[s].position
    /\ \E notify_raises \in BOOLEAN :
          rn' = [rn EXCEPT !.trader[s].notification_sent = @ \/ ~notify_raises,
                           !.trader[s].protective = FALSE,
                           !.trader[s].trailing = FALSE]
    /\ UNCHANGED <<trailVars, liveVars, planVars, zn, tk, fx, tc, rl>>

NextRun ==
    \/ RunInitialize
    \/ \E s \in Symbols : RunIteration(s)
    \/ \E s \in Symbols : RunExchangeClose(s)
    \/ \E s \in Symbols : RunTrailingActivation(s)
    \/ \E s \in Symbols : RunTrailingClosed(s)

SpecRun == InitRun /\ [][NextRun]_vars

\* Positions of one symbol closed by the exchange while its loop runs on.
MaxLoopClosures == 2

\* The loop of SymbolTrader.run going on for ever with every exchange call
\* succeeding and truthful: the iteration is counted modulo 2 and the orders
\* are not counted. No zone breaks out any more once MaxLoopClosures positions
\* of the symbol have been closed.
RunLoop(s) ==
    /\ rn.stage = "run"
    /\ rn.trader[s].pc = "loop"
    /\ \E breakout \in IF rn.trader[s].closures < MaxLoopClosures THEN BOOLEAN ELSE {FALSE} :
          rn' = [rn EXCEPT !.trader[s] =
                    [Iteration(@, rn.use_trailing, "ok", breakout, "ok", "valid",
                               "sufficient", "ok", FALSE)
                        EXCEPT !.iterations = (rn.trader[s].iterations + 1) % 2,
                               !.orders = 0]]
    /\ UNCHANGED <<trailVars, liveVars, planVars, zn, tk, fx, tc, rl>>

NextRunLoop ==
    \/ RunInitialize
    \/ \E s \in Symbols : RunLoop(s)
    \/ \E s \in Symbols : RunExchangeClose(s)
    \/ \E s \in Symbols : RunTrailingActivation(s)
    \/ \E s \in Symbols : RunTrailingClosed(s)

\* A started loop keeps iterating: each pass ends in asyncio.sleep and the
\* next one follows.
SpecRunLoop ==
    InitRun /\ [][NextRunLoop]_vars /\ \A s \in Symbols : WF_vars(RunLoop(s))

C22_FailureIsContained ==
    /\ \A s \in Symbols : rn.stage = "run" /\ rn.trader[s].last = "raised"
                              => rn.trader[s].pc = "loop"
    /\ \A s \in Symbols : rn.stage # "idle" /\ rn.trader[s].pc = "failed"
                              => rn.stage # "aborted"

\* C23: a raising notifier changes nothing in trading: a position opened while
\* notify_position_opened raised has its zone locked and its trailing task
\* started, an activation whose notification raised is in effect, and once the
\* closure is handled and no trailing task is left the protective orders are
\* cancelled.
C23_NotifierFailureHarmless ==
    \A s \in Symbols :
        LET t == rn.trader[s]
        IN rn.stage = "run" =>
              /\ t.last = "open_notify_raised"
                    => (t.zone_locked /\ (rn.use_trailing => t.trailing))
              /\ t.trail_notify_raised => t.activated
              /\ (t.closed_handled /\ ~t.trailing /\ ~t.position) => ~t.protective

\* C24: once stop has been requested and cleanup has completed, no
\* trailing-stop task of the symbol is running and no task calls
\* replace_stop_loss.
C24_NoReplaceAfterCleanup ==
    /\ tk.cleaned => RunningTasks(tk) = {}
    /\ ~tk.late_replace

----------------------------------------------------------------------------
(* Calculations of the backtest: zone grouping, P&L, rounding, statistics   *)

\* Candles of a detection run, and the 15-minute slots their open times are
\* taken from.
MaxDetectBars == 3
DetectSlots == 5

\* The data frames of a detection run: open time (minutes) -> candle, with the
\* accumulation mask of detect_accumulation_zones as the field qualifies.
DetectFrames ==
    LET times == {15 * i : i \in 0..DetectSlots}
        rows == {r \in [high : {P(102), P(103)}, low : {P(100), P(101)},
                        qualifies : BOOLEAN] : r.high - r.low = P(2)}
    IN UNION {[T -> rows] : T \in {T \in SUBSET times :
                                      Cardinality(T) \in 1..MaxDetectBars}}

\* The mutant of NewZoneStarts: no gap starts a zone.
NewZoneStartsNever(gap) == FALSE

\* time_diff of detect_accumulation_zones: the gap to the previous qualifying
\* candle is more than 30 minutes.
NewZoneStarts(gap) == gap > 30

\* The mutant of ZoneKept: no group is dropped for its size.
ZoneKeptAlways(n, min_zone_size) == TRUE

\* group_zones skips a group with len(zone_data) < min_zone_size.
ZoneKept(n, min_zone_size) == ~(n < min_zone_size)

\* detect_accumulation_zones' zone_group (the running count of time_diff over
\* the qualifying candles) and group_zones over the groups.
GroupZones(df, min_zone_size) ==
    LET acc == {t \in DOMAIN df : df[t].qualifies}
        time_diff(t) ==
            \E u \in acc : /\ u < t
                           /\ \A v \in acc : v < t => v <= u
                           /\ NewZoneStarts(t - u)
        zone_group(t) == Cardinality({u \in acc : u <= t /\ time_diff(u)})
        zone_data(g) == {t \in acc : zone_group(t) = g}
    IN {[zone_id |-> g,
         start |-> CHOOSE t \in zone_data(g) : \A u \in zone_data(g) : t <= u,
         end |-> CHOOSE t \in zone_data(g) : \A u \in zone_data(g) : t >= u,
         size |-> Cardinality(zone_data(g)),
         high |-> CHOOSE h \in {df[t].high : t \in zone_data(g)} :
                     \A t \in zone_data(g) : h >= df[t].high,
         low |-> CHOOSE l \in {df[t].low : t \in zone_data(g)} :
                    \A t \in zone_data(g) : l <= df[t].low,
         data |-> zone_data(g)] :
        g \in {g \in {zone_group(t) : t \in acc} :
                  ZoneKept(Cardinality(zone_data(g)), min_zone_size)}}

InitCalc ==
    /\ \E c \in LiveConfigs : TrailInitState(c)
    /\ ex = [position |-> FALSE, protective |-> FALSE]
    /\ pm = PmInit(FALSE)
    /\ tsm_ctl = TsmCtlInit(FALSE)
    /\ obs = ObsInit(FALSE)
    /\ plan = PlanIdle
    /\ zn = ZonesIdle
    /\ tk = TasksIdle
    /\ rn = RunIdle
    /\ fx = FxIdle
    /\ tc = TickerIdle
    /\ rl = LimiterIdle

\* get_all_zones on a data frame, for a value of min_zone_size.
GetAllZones ==
    /\ fx.op = "none"
    /\ \E df \in DetectFrames, min_zone_size \in 0..MaxDetectBars :
          fx' = [op |-> "group_zones", df |-> df, min_zone_size |-> min_zone_size,
                 zones |-> GroupZones(df, min_zone_size)]
    /\ UNCHANGED <<trailVars, liveVars, planVars, zn, tk, rn, tc, rl>>

\* The mutant of TradePnl: the LONG formulas for either direction.
TradePnlLong(direction, entry_price, exit_price, position_size) ==
    [pnl_usd |-> (exit_price - entry_price) * position_size,
     pnl_pct |-> [num |-> (exit_price - entry_price) * 100, den |-> entry_price]]

\* backtest_zone's pnl_usd and pnl_pct; the percentage is kept as the
\* fraction num / den.
TradePnl(direction, entry_price, exit_price, position_size) ==
    IF direction = "LONG"
    THEN [pnl_usd |-> (exit_price - entry_price) * position_size,
          pnl_pct |-> [num |-> (exit_price - entry_price) * 100, den |-> entry_price]]
    ELSE [pnl_usd |-> (entry_price - exit_price) * position_size,
          pnl_pct |-> [num |-> (entry_price - exit_price) * 100, den |-> entry_price]]

\* backtest_zone closes a trade: entry and exit price, and a position size
\* above zero.
ComputePnl ==
    /\ fx.op = "none"
    /\ \E direction \in Directions, entry_price \in {P(90), P(100), P(110)},
          exit_price \in {P(90), P(100), P(110)}, position_size \in {1, 10} :
          fx' = [op |-> "pnl", direction |-> direction, entry_price |-> entry_price,
                 exit_price |-> exit_price, position_size |-> position_size,
                 pnl |-> TradePnl(direction, entry_price, exit_price, position_size)]
    /\ UNCHANGED <<trailVars, liveVars, planVars, zn, tk, rn, tc, rl>>

\* Prices handed to round_price, in model units.
MaxRoundPrice == 40

\* round_price for a tick size above zero, and round_price of its result.
RunRoundPrice ==
    /\ fx.op = "none"
    /\ \E tick \in {1, 3, 10, 25}, price \in 0..MaxRoundPrice :
          fx' = [op |-> "round_price", tick |-> tick, price |-> price,
                 rounded |-> RoundPrice(tick, price),
                 again |-> RoundPrice(tick, RoundPrice(tick, price))]
    /\ UNCHANGED <<trailVars, liveVars, planVars, zn, tk, rn, tc, rl>>

\* Trades of a statistics run.
MaxTrades == 3

RECURSIVE CumSum(_, _)
\* np.cumsum: the sum of the first i entries.
CumSum(series, i) == IF i = 0 THEN 0 ELSE CumSum(series, i - 1) + series[i]

\* enhanced_statistics: equity = initial_capital + cumsum(pnl_usd), its
\* running maximum, the lowest drawdown and the running maximum where it is
\* first reached; the percentage is kept as the fraction num / den.
EnhancedStatistics(pnl_series, initial_capital) ==
    LET n == Len(pnl_series)
        equity == [i \in 1..n |-> initial_capital + CumSum(pnl_series, i)]
        running_max == [i \in 1..n |->
                           CHOOSE m \in {equity[j] : j \in 1..i} :
                               \A j \in 1..i : m >= equity[j]]
        drawdowns == [i \in 1..n |-> equity[i] - running_max[i]]
        max_dd_abs == CHOOSE d \in {drawdowns[i] : i \in 1..n} :
                          \A i \in 1..n : d <= drawdowns[i]
        argmin == CHOOSE i \in 1..n :
                      /\ drawdowns[i] = max_dd_abs
                      /\ \A j \in 1..(i - 1) : drawdowns[j] # max_dd_abs
    IN [equity_end |-> equity[n],
        max_drawdown_usd |-> Abs(max_dd_abs),
        max_drawdown_pct |->
            IF running_max[argmin] # 0
            THEN [num |-> Abs(max_dd_abs * 100), den |-> Abs(running_max[argmin])]
            ELSE [num |-> 0, den |-> 1]]

\* enhanced_statistics on a non-empty list of trades, given by their pnl_usd.
RunEnhancedStatistics ==
    /\ fx.op = "none"
    /\ \E n \in 1..MaxTrades, initial_capital \in {500, 1000} :
          \E pnl_series \in [1..n -> {-200, -100, 100, 200}] :
             fx' = [op |-> "enhanced_statistics", pnl_series |-> pnl_series,
                    initial_capital |-> initial_capital,
                    stats |-> EnhancedStatistics(pnl_series, initial_capital)]
    /\ UNCHANGED <<trailVars, liveVars, planVars, zn, tk, rn, tc, rl>>

\* The levels _handle_breakout (and trade_symbol of main_live.py) computes for
\* a detected breakout: the entry is the ticker price read after the
\* detection, the stop the far zone boundary, the take-profit rr_ratio risks
\* beyond the entry. raised: the ZeroDivisionError of risk_amount / risk in
\* _handle_breakout; trade_symbol divides by risk or 1e-8 instead.
HandleBreakoutLevels(path, zone, direction, current_price) ==
    LET entry_price == current_price
        stop_loss == IF direction = "LONG" THEN zone.low ELSE zone.high
        risk == Abs(entry_price - stop_loss)
    IN [op |-> "handle_breakout", path |-> path, direction |-> direction,
        entry_price |-> entry_price, stop_loss |-> stop_loss, risk |-> risk,
        take_profit |-> IF direction = "LONG" THEN entry_price + RrRatio * risk
                        ELSE entry_price - RrRatio * risk,
        raised |-> path = "trader" /\ risk = 0]

\* A breakout of the zone has been detected on the latest closed candle and
\* the ticker price is read: any level, the market having moved on since the
\* candle closed.
RunHandleBreakout ==
    /\ fx.op = "none"
    /\ \E path \in ZonePaths, direction \in Directions, current_price \in PlanLevels :
          fx' = HandleBreakoutLevels(path, PlanZone, direction, current_price)
    /\ UNCHANGED <<trailVars, liveVars, planVars, zn, tk, rn, tc, rl>>

\* Attempts of one fetch_recent_klines call (max_retries, default 3).
MaxRetries == 3

\* How one futures_klines request ends: the klines, ReadTimeout,
\* ConnectionError, an error naming "Too many requests" or -1003, or any other
\* exception.
KlineOutcomes == {"ok", "timeout", "connection", "rate_limit", "error"}

\* The mutant of KlinesRetry: every failure is retried.
KlinesRetryAny(o) == o # "ok"

\* The failures after which the loop may go to the next attempt.
KlinesRetry(o) == o \in {"timeout", "connection", "rate_limit"}

\* time.sleep before the next attempt: (attempt + 1) * 2 seconds after a
\* timeout or connection error that is not the last attempt's, 5 seconds
\* after a rate-limit error.
KlinesWait(attempt, max_retries, o) ==
    IF o = "rate_limit" THEN 5
    ELSE IF attempt < max_retries - 1 THEN (attempt + 1) * 2
    ELSE 0

RECURSIVE FetchLoop(_, _, _, _)
\* for attempt in range(max_retries): the call's record from this attempt on;
\* result is the number of the request whose klines are returned (0: None),
\* waits the seconds slept after each failed request.
FetchLoop(attempt, max_retries, outcomes, waits) ==
    IF attempt >= max_retries
    THEN [op |-> "fetch_recent_klines", max_retries |-> max_retries,
          outcomes |-> outcomes, requests |-> attempt, waits |-> waits, result |-> 0]
    ELSE LET o == outcomes[attempt + 1]
             slept == Append(waits, IF o = "ok" \/ ~KlinesRetry(o) THEN 0
                                    ELSE KlinesWait(attempt, max_retries, o))
         IN IF o = "ok"
            THEN [op |-> "fetch_recent_klines", max_retries |-> max_retries,
                  outcomes |-> outcomes, requests |-> attempt + 1,
                  waits |-> waits, result |-> attempt + 1]
            ELSE IF KlinesRetry(o) /\ attempt < max_retries - 1
            THEN FetchLoop(attempt + 1, max_retries, outcomes, slept)
            ELSE [op |-> "fetch_recent_klines", max_retries |-> max_retries,
                  outcomes |-> outcomes, requests |-> attempt + 1,
                  waits |-> slept, result |-> 0]

\* fetch_recent_klines(symbol, interval, limit, max_retries), given how each
\* request would end.
FetchRecentKlines(max_retries, outcomes) == FetchLoop(0, max_retries, outcomes, <<>>)

RunFetchRecentKlines ==
    /\ fx.op = "none"
    /\ \E max_retries \in 0..MaxRetries :
          \E outcomes \in [1..max_retries -> KlineOutcomes] :
             fx' = FetchRecentKlines(max_retries, outcomes)
    /\ UNCHANGED <<trailVars, liveVars, planVars, zn, tk, rn, tc, rl>>

NextCalc ==
    \/ RunFetchRecentKlines
    \/ GetAllZones
    \/ ComputePnl
    \/ RunRoundPrice
    \/ RunEnhancedStatistics
    \/ RunHandleBreakout

SpecCalc == InitCalc /\ [][NextCalc]_vars

\* C25: every zone the detector returns has at least min_zone_size member
\* candles, all of them qualifying candles, and its size is their number.
C25_ZoneSizeAtLeastMinimum ==
    fx.op = "group_zones" =>
        \A z \in fx.zones :
            /\ Cardinality(z.data) >= fx.min_zone_size
            /\ z.size = Cardinality(z.data)
            /\ \A t \in z.data : t \in DOMAIN fx.df /\ fx.df[t].qualifies

\* A zone was returned and a group of qualifying candles was dropped for its
\* size.
C25_Witness ==
    /\ fx.op = "group_zones"
    /\ fx.zones # {}
    /\ \E t \in DOMAIN fx.df :
          fx.df[t].qualifies /\ \A z \in fx.zones : t \notin z.data

\* C26: two successive qualifying candles belong to the same zone exactly when
\* they are at most 30 minutes apart; a zone starts at its first and ends at
\* its last member, spans the highest high and the lowest low of its members,
\* has low <= high, ends after its start when it has two members or more, and
\* zones follow each other in time without overlap.
C26_ZonesPartitionByGap ==
    fx.op = "group_zones" =>
        LET acc == {t \in DOMAIN fx.df : fx.df[t].qualifies}
            successive(t, u) == t < u /\ ~\E v \in acc : t < v /\ v < u
        IN /\ \A z \in fx.zones :
                 /\ z.data # {}
                 /\ z.start \in z.data /\ \A t \in z.data : z.start <= t
                 /\ z.end \in z.data /\ \A t \in z.data : t <= z.end
                 /\ \A t \in z.data : fx.df[t].high <= z.high /\ z.low <= fx.df[t].low
                 /\ \E t \in z.data : fx.df[t].high = z.high
                 /\ \E t \in z.data : fx.df[t].low = z.low
                 /\ z.low <= z.high
                 /\ z.size >= 2 => z.end > z.start
                 /\ \A t \in acc, u \in acc :
                       successive(t, u) /\ (t \in z.data \/ u \in z.data)
                          => ((t \in z.data /\ u \in z.data) <=> u - t <= 30)
           /\ \A y \in fx.zones, z \in fx.zones :
                 y # z => (y.end < z.start \/ z.end < y.start)
           /\ \A y \in fx.zones, z \in fx.zones :
                 y.zone_id < z.zone_id <=> y.end < z.start

\* Two zones were returned, one of them with two members or more.
C26_Witness ==
    /\ fx.op = "group_zones"
    /\ \E y \in fx.zones, z \in fx.zones : y # z /\ y.size >= 2

\* C27: simulate_all counts every zone under exactly one outcome; a zone is
\* counted as without breakout exactly when candles follow it and none up to
\* the end of the series satisfies the breakout condition, and as without next
\* candle exactly when the data ends with the zone.
C27_ZoneOutcomeCounts ==
    fx.op = "simulate_all" =>
        LET breakout == \E i \in plan.zone.end..Len(plan.series) :
                            PlannerBreakout(plan.zone, plan.series[i]) # "NONE"
            has_next == Len(plan.series) > plan.zone.end
        IN /\ fx.successful_trades \in 0..1 /\ fx.no_next_candle \in 0..1
           /\ fx.no_breakout \in 0..1
           /\ fx.successful_trades + fx.no_next_candle + fx.no_breakout = fx.total_zones
           /\ fx.no_breakout = 1 <=> (has_next /\ ~breakout)
           /\ fx.no_next_candle = 1 <=> ~has_next

\* C28: pnl_usd is (exit - entry) * size for LONG and (entry - exit) * size for
\* SHORT, pnl_pct is 100 * (exit - entry) / entry and 100 * (entry - exit) /
\* entry, and both are positive exactly when the price moved in the trade's
\* direction: LONG 100 -> 110 and SHORT 100 -> 90 with size 10 give +100 and +10%.
C28_PnlSignedByDirection ==
    fx.op = "pnl" =>
        LET move == IF fx.direction = "LONG" THEN fx.exit_price - fx.entry_price
                    ELSE fx.entry_price - fx.exit_price
        IN /\ fx.pnl.pnl_usd = move * fx.position_size
           /\ fx.pnl.pnl_pct.num = 100 * move /\ fx.pnl.pnl_pct.den = fx.entry_price
           /\ fx.pnl.pnl_usd > 0 <=> move > 0
           /\ fx.pnl.pnl_pct.num > 0 <=> move > 0
           /\ (move = P(10) /\ fx.entry_price = P(100) /\ fx.position_size = 10)
                 => (fx.pnl.pnl_usd = P(100)
                     /\ fx.pnl.pnl_pct.num = 10 * fx.pnl.pnl_pct.den)

\* The SHORT trade from 100 to 90 with size 10 has been closed.
C28_Witness ==
    /\ fx.op = "pnl" /\ fx.direction = "SHORT"
    /\ fx.entry_price = P(100) /\ fx.exit_price = P(90) /\ fx.position_size = 10

\* C29: for a tick above zero and a price of zero or more, round_price gives
\* a multiple of the tick that is at most the price and more than the price
\* less one tick, and rounding the result again gives the same value.
C29_RoundPriceTruncates ==
    fx.op = "round_price" =>
        /\ fx.rounded % fx.tick = 0
        /\ fx.rounded <= fx.price
        /\ fx.rounded > fx.price - fx.tick
        /\ fx.again = fx.rounded

\* A price that is not a multiple of the tick has been rounded.
C29_Witness ==
    fx.op = "round_price" /\ fx.tick > 1 /\ fx.price % fx.tick # 0

\* C30: max_drawdown_usd is the largest decline of the equity curve from its
\* running peak, the curve starting with the initial capital as its first
\* point, and max_drawdown_pct is that decline relative to the peak it is
\* measured from.
C30_DrawdownFromInitialCapital ==
    fx.op = "enhanced_statistics" =>
        LET n == Len(fx.pnl_series)
            point == [i \in 0..n |-> fx.initial_capital + CumSum(fx.pnl_series, i)]
            peak == [i \in 0..n |->
                        CHOOSE m \in {point[j] : j \in 0..i} :
                            \A j \in 0..i : m >= point[j]]
            worst == CHOOSE d \in {peak[i] - point[i] : i \in 0..n} :
                         \A i \in 0..n : d >= peak[i] - point[i]
            at == CHOOSE i \in 0..n :
                      /\ peak[i] - point[i] = worst
                      /\ \A j \in 0..(i - 1) : peak[j] - point[j] # worst
        IN /\ fx.stats.max_drawdown_usd = worst
           /\ fx.stats.max_drawdown_pct.num * peak[at]
                  = 100 * worst * fx.stats.max_drawdown_pct.den

\* C34: after any replace_stop_loss call for an open position that had a stop
\* order, whether the call returned or raised at any step, a stop order for
\* the position rests on the exchange.
C34_StopOrderSurvivesReplace ==
    (ReplaceCalled /\ PositionSurvived /\ tsm_before.stop_order # 0)
        => stop_order # 0

\* C39: a replacement that times out at the manager leaves the manager with
\* its old stop, and once the call has run its course the manager's stop, at
\* the price tick, is still the stop price of the exchange's stop order, as it
\* was before the call.
C39_TimeoutKeepsStopsEqual ==
    (/\ ReplaceCalled
     /\ PositionSurvived
     /\ last_replace.outcome \in {"timeout_applied", "timeout_lost"}
     /\ tsm_before.stop_order = RoundPrice(setup.tick, tsm_before.state.current_stop))
        => /\ tsm.current_stop = tsm_before.state.current_stop
           /\ stop_order = RoundPrice(setup.tick, tsm.current_stop)

\* C36: a simulated trade closed as a WIN has pnl_usd of zero or more and a
\* trade closed as a LOSS has pnl_usd of zero or less, also when the exit is
\* at a trailing stop that has moved from the initial stop.
C36_ResultMatchesPnlSign ==
    LET pnl == TradePnl(setup.direction, setup.entry_price, bt.exit_price, 1)
    IN /\ bt.result = "WIN" => pnl.pnl_usd >= 0
       /\ bt.result = "LOSS" => pnl.pnl_usd <= 0

\* C35: the levels of every position the live loop opens are ordered around
\* the entry, stop-loss < entry < take-profit for a LONG and take-profit <
\* entry < stop-loss for a SHORT, so the risk is above zero and the reward is
\* at least rr_ratio times the risk.
C35_LevelsOrderedAroundEntry ==
    (fx.op = "handle_breakout" /\ ~fx.raised) =>
        /\ IF fx.direction = "LONG"
           THEN fx.stop_loss < fx.entry_price /\ fx.entry_price < fx.take_profit
           ELSE fx.take_profit < fx.entry_price /\ fx.entry_price < fx.stop_loss
        /\ fx.risk > 0
        /\ Abs(fx.take_profit - fx.entry_price) >= RrRatio * fx.risk

C32_BoundedRetries ==
    fx.op = "fetch_recent_klines" =>
        /\ fx.requests <= fx.max_retries
        /\ \A i \in 1..(fx.requests - 1) :
              /\ fx.outcomes[i] \in {"timeout", "connection", "rate_limit"}
              /\ fx.waits[i] > 0
        /\ fx.result # 0 =>
              /\ fx.result = fx.requests
              /\ fx.outcomes[fx.result] = "ok"
              /\ \A i \in 1..(fx.result - 1) : fx.outcomes[i] # "ok"
        /\ fx.result = 0 =>
              \/ fx.requests = fx.max_retries
                    /\ \A i \in 1..fx.requests : fx.outcomes[i] # "ok"
              \/ fx.outcomes[fx.requests] = "error"

\* A call of three attempts has been retried after a timeout and after a
\* rate-limit error and has returned the klines of its third request.
C32_Witness ==
    /\ fx.op = "fetch_recent_klines"
    /\ fx.max_retries = 3
    /\ fx.outcomes = <<"timeout", "rate_limit", "ok">>
    /\ fx.result = 3

\* C33: an iteration in which open_position was called ends either with the
\* position open, its stop-loss and take-profit placed and True returned, or
\* with no position open and False returned; the position is never open
\* without its stop-loss.
C33_OpenPositionAllOrNothing ==
    [][\A s \in Symbols :
          LET t == rn.trader[s]
              u == rn'.trader[s]
          IN (/\ rn.stage = "run"
              /\ u.iterations = t.iterations + 1
              /\ u.last \in {"open_failed", "sl_failed", "open_notify_raised", "opened"})
             => /\ u.last = "opened" => (u.position /\ u.protective)
                /\ u.last # "opened" => ~u.position
                /\ u.position => u.protective]_vars

\* C37: a position the loop has opened and that has closed on the exchange is
\* eventually followed by the position-closed handling of the main loop, also
\* when it closes before the next poll and trailing is disabled.
C37_ClosureEventuallyHandled ==
    \A s \in Symbols : \A n \in 1..MaxLoopClosures :
        (rn.stage = "run" /\ rn.trader[s].closures = n) ~> (rn.trader[s].handled >= n)

\* ---------------------------------------------------------------------------
\* BinanceExecutor.get_ticker_price and its per-symbol cache.  Time is counted
\* in half seconds.
\* ---------------------------------------------------------------------------

\* _ticker_cache_ttl = 1.0 second, in half seconds.
TickerCacheTtl == 2

\* The clock stops at MaxTickerClock half seconds.
MaxTickerClock == 4

\* The prices the exchange answers with; 0 stands for None.
TickerPrices == {1, 2}

\* The symbol has no entry in _ticker_cache.
NoEntry == [price |-> 0, time |-> -1]

\* A cache test that accepts an entry of any age.
CacheFreshAnyAge(age) == TRUE

\* current_time - cache_time < self._ticker_cache_ttl
CacheFresh(age) == age < TickerCacheTtl

\* get_ticker_price(symbol, use_cache) called at current_time; fetched is the
\* price futures_symbol_ticker answers with, or 0 when the request raises.
GetTickerPrice(cache, current_time, symbol, use_cache, fetched) ==
    LET entry == cache[symbol]
    IN IF use_cache /\ entry # NoEntry /\ CacheFresh(current_time - entry.time)
       THEN [cache |-> cache, price |-> entry.price, contacted |-> FALSE]
       ELSE IF fetched # 0
            THEN [cache |-> [cache EXCEPT ![symbol] =
                                [price |-> fetched, time |-> current_time]],
                  price |-> fetched, contacted |-> TRUE]
            ELSE [cache |-> cache,
                  price |-> IF entry # NoEntry THEN entry.price ELSE 0,
                  contacted |-> TRUE]

\* BinanceExecutor.__init__: an empty cache.
InitTicker ==
    /\ \E c \in LiveConfigs : TrailInitState(c)
    /\ ex = [position |-> FALSE, protective |-> FALSE]
    /\ pm = PmInit(FALSE)
    /\ tsm_ctl = TsmCtlInit(FALSE)
    /\ obs = ObsInit(FALSE)
    /\ plan = PlanIdle
    /\ zn = ZonesIdle
    /\ tk = TasksIdle
    /\ rn = RunIdle
    /\ fx = FxIdle
    /\ tc = [now |-> 0,
             cache |-> [s \in Symbols |-> NoEntry],
             last |-> [op |-> "none"]]
    /\ rl = LimiterIdle

\* Half a second passes between two calls.
TickerClock ==
    /\ tc.now < MaxTickerClock
    /\ tc' = [tc EXCEPT !.now = @ + 1]
    /\ UNCHANGED <<trailVars, liveVars, planVars, zn, tk, rn, fx, rl>>

\* One call of get_ticker_price.  The time is read when the call starts; the
\* rate limiter and the request make the call take `took` half seconds.
RunGetTickerPrice ==
    \E symbol \in Symbols, use_cache \in BOOLEAN, fetched \in TickerPrices \cup {0},
       took \in 0..1 :
        LET r == GetTickerPrice(tc.cache, tc.now, symbol, use_cache, fetched)
        IN /\ tc.now + took <= MaxTickerClock
           /\ r.contacted \/ took = 0
           /\ tc' = [now |-> tc.now + took,
                     cache |-> r.cache,
                     last |-> [op |-> "get_ticker_price", symbol |-> symbol,
                               use_cache |-> use_cache, current_time |-> tc.now,
                               before |-> tc.cache, fetched |-> fetched,
                               contacted |-> r.contacted, price |-> r.price]]
           /\ UNCHANGED <<trailVars, liveVars, planVars, zn, tk, rn, fx, rl>>

NextTicker == TickerClock \/ RunGetTickerPrice

SpecTicker == InitTicker /\ [][NextTicker]_vars

\* C31: with caching enabled get_ticker_price answers from the cache, without
\* a request to the exchange, exactly when the symbol has an entry younger
\* than the one-second TTL; otherwise it requests the price and stores it; a
\* failed request returns the symbol's last cached price, expired or not, or
\* None without one, and leaves the cache as it was; no call changes another
\* symbol's entry.
C31_TickerCache ==
    tc.last.op = "get_ticker_price" =>
        LET l == tc.last
            old == l.before[l.symbol]
            young == old # NoEntry /\ l.current_time - old.time < TickerCacheTtl
        IN /\ \A o \in Symbols \ {l.symbol} : tc.cache[o] = l.before[o]
           /\ l.use_cache =>
                /\ l.contacted <=> ~young
                /\ young => l.price = old.price /\ tc.cache = l.before
           /\ (l.contacted /\ l.fetched # 0) =>
                /\ l.price = l.fetched
                /\ tc.cache[l.symbol].price = l.fetched
           /\ (l.contacted /\ l.fetched = 0) =>
                /\ l.price = (IF old # NoEntry THEN old.price ELSE 0)
                /\ tc.cache = l.before

\* C31 witness: a failed request has returned the symbol's expired entry and
\* the entry is still in the cache.
C31_Witness ==
    /\ tc.last.op = "get_ticker_price"
    /\ tc.last.use_cache
    /\ tc.last.contacted
    /\ tc.last.fetched = 0
    /\ tc.last.before[tc.last.symbol] # NoEntry
    /\ tc.last.current_time - tc.last.before[tc.last.symbol].time >= TickerCacheTtl
    /\ tc.last.price = tc.last.before[tc.last.symbol].price
    /\ tc.cache = tc.last.before

\* ---------------------------------------------------------------------------
\* RateLimiter.wait_if_needed called by several threads.  Time is counted in
\* seconds; a timestamp is kept as its age, the time since it was read.
\* ---------------------------------------------------------------------------

\* The window of the per-second limit: 1.0 second.
SecondTicks == 1

\* The window of the per-minute limit: 60.0 seconds.
MinuteTicks == 60

\* The buffers added to the two sleeps, 0.01 and 0.1 seconds: a sleep ends at
\* the first whole second after the computed time.
SecondBuffer == 1
MinuteBuffer == 1

\* Calls of wait_if_needed made in one run, over all threads.
MaxCalls == 3

LimiterThreads == {1, 2}

\* max_requests_per_second and max_requests_per_minute of the constructor.
LimiterSettings ==
    {[max_rps |-> 1, max_rpm |-> 2], [max_rps |-> 2, max_rpm |-> 2]}

\* A limit test that lets one more request in.
LimitExceeded(n, limit) == n > limit

\* len(self._request_times) >= self.max_rps, len(self._minute_times) >= self.max_rpm
LimitReached(n, limit) == n >= limit

\* The timestamps of a deque that are younger than the window.
DropOld(ages, window) ==
    LET Young(a) == a < window
    IN SelectSeq(ages, Young)

\* _cleanup_old_requests(current_time)
CleanupOldRequests(r) ==
    [r EXCEPT !.request_times = DropOld(@, SecondTicks),
              !.minute_times = DropOld(@, MinuteTicks)]

\* The end of wait_if_needed: the request is recorded with the time read last
\* and the lock is released.
RecordRequest(r, t) ==
    [r EXCEPT !.request_times = Append(@, 0),
              !.minute_times = Append(@, 0),
              !.admitted = Append(@, 0),
              !.total_requests = @ + 1,
              !.lock = 0,
              !.thread[t] = [pc |-> "idle", remaining |-> 0]]

\* The per-minute check: sleep until the oldest request of the minute is a
\* minute old, or record the request.
CheckMinute(r, t) ==
    IF LimitReached(Len(r.minute_times), r.max_rpm)
    THEN LET wait_time == MinuteTicks - r.minute_times[1] + MinuteBuffer
         IN IF wait_time > 0
            THEN [r EXCEPT !.thread[t] = [pc |-> "sleep_minute", remaining |-> wait_time]]
            ELSE RecordRequest(r, t)
    ELSE RecordRequest(r, t)

\* The per-second check: sleep until the oldest request of the second is a
\* second old, or go on to the per-minute check.
CheckSecond(r, t) ==
    IF LimitReached(Len(r.request_times), r.max_rps)
    THEN LET wait_time == SecondTicks - r.request_times[1] + SecondBuffer
         IN IF wait_time > 0
            THEN [r EXCEPT !.thread[t] = [pc |-> "sleep_second", remaining |-> wait_time]]
            ELSE CheckMinute(r, t)
    ELSE CheckMinute(r, t)

\* RateLimiter.__init__: empty deques, a free lock, no thread in a call.
InitLimiter ==
    /\ \E c \in LiveConfigs : TrailInitState(c)
    /\ ex = [position |-> FALSE, protective |-> FALSE]
    /\ pm = PmInit(FALSE)
    /\ tsm_ctl = TsmCtlInit(FALSE)
    /\ obs = ObsInit(FALSE)
    /\ plan = PlanIdle
    /\ zn = ZonesIdle
    /\ tk = TasksIdle
    /\ rn = RunIdle
    /\ fx = FxIdle
    /\ tc = TickerIdle
    /\ \E cfg \in LimiterSettings :
          rl = [max_rps |-> cfg.max_rps, max_rpm |-> cfg.max_rpm,
                lock |-> 0, request_times |-> <<>>, minute_times |-> <<>>,
                total_requests |-> 0, calls |-> 0, admitted |-> <<>>,
                thread |-> [t \in LimiterThreads |-> [pc |-> "idle", remaining |-> 0]]]

\* A thread calls wait_if_needed and blocks on the lock.
LimiterCall(t) ==
    /\ "thread" \in DOMAIN rl
    /\ rl.thread[t].pc = "idle"
    /\ rl.calls < MaxCalls
    /\ rl' = [rl EXCEPT !.calls = @ + 1, !.thread[t].pc = "blocked"]
    /\ UNCHANGED <<trailVars, liveVars, planVars, zn, tk, rn, fx, tc>>

\* The thread gets the lock, reads the time, cleans the deques and checks
\* the per-second limit.
LimiterAcquire(t) ==
    /\ "thread" \in DOMAIN rl
    /\ rl.thread[t].pc = "blocked"
    /\ rl.lock = 0
    /\ rl' = CheckSecond(CleanupOldRequests([rl EXCEPT !.lock = t]), t)
    /\ UNCHANGED <<trailVars, liveVars, planVars, zn, tk, rn, fx, tc>>

\* The sleep of the per-second check is over: the time is read again, the
\* deques are cleaned and the per-minute limit is checked.
LimiterWakeSecond(t) ==
    /\ "thread" \in DOMAIN rl
    /\ rl.thread[t].pc = "sleep_second"
    /\ rl.thread[t].remaining = 0
    /\ rl' = CheckMinute(CleanupOldRequests(rl), t)
    /\ UNCHANGED <<trailVars, liveVars, planVars, zn, tk, rn, fx, tc>>

\* The sleep of the per-minute check is over: the time is read again, the
\* deques are cleaned and the request is recorded.
LimiterWakeMinute(t) ==
    /\ "thread" \in DOMAIN rl
    /\ rl.thread[t].pc = "sleep_minute"
    /\ rl.thread[t].remaining = 0
    /\ rl' = RecordRequest(CleanupOldRequests(rl), t)
    /\ UNCHANGED <<trailVars, liveVars, planVars, zn, tk, rn, fx, tc>>

\* One second passes: every timestamp is a second older, every sleep a second
\* shorter.  Ages stop at the window after which the timestamp is dropped.
LimiterTick ==
    /\ "thread" \in DOMAIN rl
    /\ rl' = [rl EXCEPT
                !.request_times = [i \in DOMAIN @ |-> Min(@[i] + 1, SecondTicks)],
                !.minute_times = [i \in DOMAIN @ |-> Min(@[i] + 1, MinuteTicks)],
                !.admitted = DropOld([i \in DOMAIN @ |-> @[i] + 1], MinuteTicks),
                !.thread = [t \in LimiterThreads |->
                               [@[t] EXCEPT !.remaining = Max(@ - 1, 0)]]]
    /\ UNCHANGED <<trailVars, liveVars, planVars, zn, tk, rn, fx, tc>>

NextLimiter ==
    \/ LimiterTick
    \/ \E t \in LimiterThreads : LimiterCall(t)
    \/ \E t \in LimiterThreads : LimiterAcquire(t)
    \/ \E t \in LimiterThreads : LimiterWakeSecond(t)
    \/ \E t \in LimiterThreads : LimiterWakeMinute(t)

SpecLimiter == InitLimiter /\ [][NextLimiter]_vars

\* Time passes, a sleep that is over returns, and a thread blocked on the lock
\* gets it at one of the moments the lock is free.
SpecLimiterFair ==
    /\ SpecLimiter
    /\ WF_vars(LimiterTick)
    /\ \A t \in LimiterThreads :
          /\ SF_vars(LimiterAcquire(t))
          /\ WF_vars(LimiterWakeSecond(t))
          /\ WF_vars(LimiterWakeMinute(t))

\* The requests recorded in the window of the given length that ends now.
AdmittedWithin(window) ==
    Cardinality({i \in DOMAIN rl.admitted : rl.admitted[i] < window})

\* The two limits hold for the windows that end now.
WindowsRespected ==
    /\ AdmittedWithin(SecondTicks) <= rl.max_rps
    /\ AdmittedWithin(MinuteTicks) <= rl.max_rpm

====
